---------------------------- MODULE Spec2Model ----------------------------
(***************************************************************************)
(* Name and type resolution of src/ada/language/ast.py.                    *)
(*                                                                         *)
(* The module has two parts.  The first part is the lexical-environment    *)
(* store the properties of ast.py query through env.get / get_sequential / *)
(* rebind_env (specification SpecEnv).  The second part is the resolution   *)
(* driver (resolve_names / resolve_names_internal), the xref_equation       *)
(* builders and the solver they hand their equations to (SpecRes).          *)
(***************************************************************************)
EXTENDS Integers, Sequences, FiniteSets, TLC

(***************************************************************************)
(* Bounds of the model.                                                    *)
(***************************************************************************)
MaxPos == 4      \* source positions the population pass visits (nodes 1..MaxPos)

Syms == {"a", "Standard"}

EmptyEnv == 0
NoNode   == 0

\* A node is named by its source position; the environment a node introduces
\* carries the node's position as its identity.
Nodes == 1..MaxPos
Envs  == Nodes

VARIABLES
    pos,        \* the source position the population pass visits next
    cur,        \* the innermost enclosing environment at that position
    live,       \* the environments created so far
    parent,     \* parent[e]: parent link of e, EmptyEnv when none
    map,        \* map[e]: the entries of e, <<key, entity>> in insertion order
    refs,       \* refs[e]: the referenced-environment descriptors of e
    log,        \* history: every add performed, in the order performed
    snap,       \* history: snap[p][e, s, rec] is what get(e, s, rec) returned
                \*          just before the node at position p was visited
    query,      \* the last get issued
    result,     \* ... and what it returned
    handle,     \* the environment a defining_env call returned, with the
                \* rebindings it carries
    bindings,   \* bindings[v]: the value of logic variable v (type_var / ref_var)
    type_expr,  \* type_expr[d]: the type name object declaration d was written with
    call,       \* the last resolve_names call and what it returned
    units,      \* the with clauses the units were written with, and which
                \* unit the unit loader recorded as referenced from which
    post        \* the registrations marked "post" the structural pass recorded

storeVars == <<pos, cur, live, parent, map, refs, log, snap, query, result>>

resVars == <<bindings, type_expr, call, units, post>>

\* The variables the store operations leave alone.
envIdle == <<handle, resVars>>

envVars == <<storeVars, envIdle>>

(***************************************************************************)
(* Entity & Metadata                                                       *)
(***************************************************************************)
\* Metadata: the env_metadata struct of ast.py.
Metadata(dottable, deref) == [dottable_subp |-> dottable, implicit_deref |-> deref]

MdDefault == Metadata(FALSE, FALSE)

\* An entity: (node, metadata, rebinding chain).
Entity(n, md, rebs) == [node |-> n, md |-> md, rebindings |-> rebs]

NoEntity == Entity(NoNode, MdDefault, <<>>)

\* No resolve_names call was made yet, no logic variable exists.
NoCall == [node |-> NoNode, res |-> "none", built |-> <<>>]

\* No unit was written with a with clause, none is referenced from another.
NoUnits == [written |-> {}, referenced |-> {}]

NothingResolved ==
    /\ bindings = <<>> /\ type_expr = <<>> /\ call = NoCall
    /\ units = NoUnits /\ post = <<>>

\* The marker a lookup returns when its recursion budget is exhausted.
Overflow == Entity(-1, MdDefault, <<>>)

\* The environment a target computation yields when that budget is exhausted.
OverflowEnv == -1

\* A rebinding: (source environment, target environment).
Rebinding(src, tgt) == <<src, tgt>>

\* An environment together with the rebindings a traversal from it applies.
Handle(e, rebs) == [env |-> e, rebs |-> rebs]

NoHandle == Handle(EmptyEnv, <<>>)


(***************************************************************************)
(* Sequence helpers                                                        *)
(***************************************************************************)
Range(seq) == {seq[i] : i \in DOMAIN seq}

At(seq, i) == IF i + 1 \in DOMAIN seq THEN seq[i + 1] ELSE NoEntity

RECURSIVE Dedup(_)
\* Keeps the first occurrence of every element (entity equality).
Dedup(seq) ==
    IF seq = <<>> THEN <<>>
    ELSE LET init == Dedup(SubSeq(seq, 1, Len(seq) - 1))
             last == seq[Len(seq)]
         IN IF last \in Range(init) THEN init ELSE Append(init, last)

RECURSIVE Flatten(_)
Flatten(seqs) ==
    IF seqs = <<>> THEN <<>> ELSE Head(seqs) \o Flatten(Tail(seqs))

IndexOf(seq, x) == CHOOSE i \in DOMAIN seq : seq[i] = x /\ \A j \in 1..(i - 1) : seq[j] # x

(***************************************************************************)
(* Rebindings                                                              *)
(***************************************************************************)
\* The mutant of AppendRebinding: a chain grows with every application.
AppendAlways(chain, r) == Append(chain, r)

\* Appending a rebinding to a chain; a chain holds a rebinding once.
AppendRebinding(chain, r) ==
    IF r \in Range(chain) THEN chain ELSE Append(chain, r)

RECURSIVE AppendRebindings(_, _)
AppendRebindings(chain, rebs) ==
    IF rebs = <<>> THEN chain
    ELSE AppendRebindings(AppendRebinding(chain, Head(rebs)), Tail(rebs))

\* Applying one rebinding to an entity found through it.
ApplyRebinding(ent, r) ==
    Entity(ent.node, ent.md, AppendRebinding(ent.rebindings, r))

ApplyRebindings(ent, rebs) ==
    Entity(ent.node, ent.md, AppendRebindings(ent.rebindings, rebs))

\* The environment a traversal continues with when it reaches e: the target
\* of the first rebinding whose source is e, else e itself.
Rebound(e, rebs) ==
    IF \E i \in DOMAIN rebs : rebs[i][1] = e
    THEN rebs[CHOOSE i \in DOMAIN rebs :
                 rebs[i][1] = e /\ \A j \in 1..(i - 1) : rebs[j][1] # e][2]
    ELSE e

(***************************************************************************)
(* Environment Store                                                       *)
(***************************************************************************)
\* Source locations.  Node p starts at Sloc(p); a name that is part of node
\* p (the package name of a use clause, the type expression of a
\* declaration) lies inside it, before the next node.
Sloc(p) == 2 * p

NameSloc(host) == 2 * host + 1

\* The environment a scope-introducing node owns.
children_env(n) == IF n \in live THEN n ELSE EmptyEnv

\* Sequential visibility: the node at position n starts before `from`.
CanReach(n, from) == from = NoNode \/ Sloc(n) < from

\* A referenced-environment descriptor.
\*   owner : the node that introduced the reference
\*   name  : the package name the target computation resolves
\*   kind  : "use" (target computed by Expr.designated_env_wrapper) or
\*           "std" (target computed by AdaNode.std_env)
\*   rec   : the recursive flag of the lookup in the target
Descriptor(owner, name, kind, rec) ==
    [owner |-> owner, name |-> name, kind |-> kind, rec |-> rec]

RootEnv == 1

\* Nested frames of one call stack hold distinct (environment, symbol)
\* pairs, so no guarded lookup nests deeper than this.
DepthLimit == MaxPos * Cardinality(Syms) + 1

OwnEntities(e, s, from, rebs) ==
    LET hits == SelectSeq(map[e], LAMBDA kv : kv[1] = s /\ CanReach(kv[2].node, from))
    IN [i \in DOMAIN hits |-> ApplyRebindings(hits[i][2], rebs)]

\* The mutant of Guarded: no pair is ever taken as being resolved.
Unguarded(e, s, visited) == FALSE

\* The guard of referenced-environment computation: the pair (e, s) is
\* being resolved in this call stack.
Guarded(e, s, visited) == <<e, s>> \in visited

\* The mutant of Combine: outer scopes first.
CombineOuterFirst(own, refd, par) == Dedup(par \o own \o refd)

\* One level's results followed by the outer levels', without duplicates.
Combine(own, refd, par) == Dedup(own \o refd \o par)

\* BasicDecl.is_package: in this store the declarations that own an
\* environment are the packages.
is_package(ent) == ent.node \in live

\* BasicDecl.defining_env: EmptyEnv by default, a package's own
\* environment (orphaned: without its parent link) for a package.
defining_env(ent) == IF is_package(ent) THEN children_env(ent.node) ELSE EmptyEnv

\* Self.parents.filter(lambda p: p.is_a(UsePackageClause)).at(0) for a name
\* that is part of node host.
parent_use_pkg_clause(host) ==
    IF \E e \in DOMAIN refs : \E i \in DOMAIN refs[e] :
          refs[e][i].owner = host /\ refs[e][i].kind = "use"
    THEN host ELSE NoNode

RECURSIVE GetI(_, _, _, _, _, _, _, _)
RECURSIVE Targets(_, _, _, _)
RECURSIVE Referenced(_, _, _, _, _, _)

\* The mutant of env_elements_baseid: the name itself is the reference of
\* the sequential lookup, also inside a use clause.
env_elements_from_self(e, tok, is_parent_pkg, host, visited, fuel) ==
    GetI(e, FALSE, tok, ~is_parent_pkg, NameSloc(host), <<>>, visited, fuel)

\* BaseId.env_elements_baseid for a name that is part of node host, env
\* bound to e.  The candidates kept by the filters of the property are all
\* those the store returns here: the declarations of this store are
\* packages and objects, none is a subprogram or a library item.
env_elements_baseid(e, tok, is_parent_pkg, host, visited, fuel) ==
    LET clause == parent_use_pkg_clause(host)
    IN GetI(e, FALSE, tok, ~is_parent_pkg,
            IF clause # NoNode THEN Sloc(clause) ELSE NameSloc(host),
            <<>>, visited, fuel)

\* The mutant of designated_type_impl: a lookup without sequential_from.
designated_type_anywhere(e, tok, o, visited, fuel) ==
    At(GetI(e, FALSE, tok, TRUE, NoNode, <<>>, visited, fuel), 0)

\* BaseId.designated_type_impl, env bound to e and origin at location o.
designated_type_impl(e, tok, o, visited, fuel) ==
    At(GetI(e, FALSE, tok, TRUE, o, <<>>, visited, fuel), 0)

\* The mutant of std: a recursive lookup.
std_recursive(visited, fuel) ==
    At(GetI(RootEnv, FALSE, "Standard", TRUE, NoNode, <<>>, visited, fuel), 0)

\* AdaNode.std: Self.unit.root.node_env.get('Standard', recursive=False).at(0)
std(visited, fuel) ==
    At(GetI(RootEnv, FALSE, "Standard", FALSE, NoNode, <<>>, visited, fuel), 0)

\* AdaNode.std_env
std_env(visited, fuel) ==
    IF std(visited, fuel) = Overflow THEN OverflowEnv
    ELSE children_env(std(visited, fuel).node)

\* Expr.designated_env_wrapper on the package name of use clause d of
\* environment e: env bound to the clause's environment, then
\* BaseId.designated_env_impl(False).  Yields the group of environments.
designated_env_wrapper(e, d, visited, fuel) ==
    LET ents == env_elements_baseid(e, d.name, FALSE, d.owner, visited, fuel)
    IN IF Overflow \in Range(ents) THEN <<OverflowEnv>>
       ELSE IF ents # <<>> /\ is_package(ents[1]) THEN <<defining_env(ents[1])>>
       ELSE [i \in DOMAIN ents |-> defining_env(ents[i])]

\* The lazy target computation of descriptor d of environment e: the
\* environments it designates.
Targets(e, d, visited, fuel) ==
    IF d.kind = "std" THEN <<std_env(visited, fuel)>>
    ELSE designated_env_wrapper(e, d, visited, fuel)

\* The entities for s the referenced environments of e contribute, in
\* descriptor order; v2 holds the pair (e, s).
Referenced(e, s, from, rebs, v2, fuel) ==
    Flatten([i \in DOMAIN refs[e] |->
       LET d == refs[e][i]
       IN IF CanReach(d.owner, from)
          THEN LET ts == Targets(e, d, v2, fuel)
               IN Flatten([k \in DOMAIN ts |->
                    GetI(ts[k], d.kind = "use", s, d.rec, from, rebs, v2, fuel)])
          ELSE <<>>])

\* get(env, symbol, recursive, sequential_from): the entities for s visible
\* from e.  orphan: e is taken without its parent link.  visited: the pairs
\* being resolved in this call stack.
GetI(e, orphan, s, rec, from, rebs, visited, fuel) ==
    IF e = OverflowEnv THEN <<Overflow>>
    ELSE IF e \notin live THEN <<>>
    ELSE IF Guarded(e, s, visited) THEN <<>>
    ELSE IF fuel = 0 THEN <<Overflow>>
    ELSE
      LET v2   == visited \cup {<<e, s>>}
          own  == OwnEntities(e, s, from, rebs)
          refd == IF rec THEN Referenced(e, s, from, rebs, v2, fuel - 1) ELSE <<>>
          par  == IF rec /\ ~orphan
                  THEN GetI(Rebound(parent[e], rebs), FALSE, s, rec, from, rebs,
                            v2, fuel - 1)
                  ELSE <<>>
      IN Combine(own, refd, par)

Get(e, s, rec) == GetI(e, FALSE, s, rec, NoNode, <<>>, {}, DepthLimit)

GetSequential(e, s, rec, from) == GetI(e, FALSE, s, rec, from, <<>>, {}, DepthLimit)

(***************************************************************************)
(* Operations of the store: the population pass issues create/add and       *)
(* records the referenced environments in the textual order of the nodes;   *)
(* the properties issue the lookups.                                        *)
(***************************************************************************)
NoQuery == [op |-> "none", env |-> EmptyEnv, sym |-> "a", rec |-> FALSE, from |-> NoNode]

Query(op, e, s, rec, from) == [op |-> op, env |-> e, sym |-> s, rec |-> rec, from |-> from]

EnvInit ==
    /\ handle = NoHandle
    /\ NothingResolved
    /\ pos = 2
    /\ cur = RootEnv
    /\ live = {RootEnv}
    /\ parent = [e \in Envs |-> EmptyEnv]
    /\ map = [e \in Envs |-> <<>>]
    /\ refs = [e \in Envs |-> <<>>]
    /\ log = <<>>
    /\ snap = [p \in Nodes |-> [k \in Envs \X Syms \X BOOLEAN |-> <<>>]]
    /\ query = NoQuery
    /\ result = <<>>

\* create(owner, parent): the environment of the scope-introducing node n.
Create(n, p) ==
    /\ live' = live \cup {n}
    /\ parent' = [parent EXCEPT ![n] = p]

\* add(env, symbol, entity): the entries of a symbol are an entity set kept
\* in insertion order.
Add(e, s, ent) ==
    /\ map' = [map EXCEPT ![e] =
                 IF <<s, ent>> \in Range(@) THEN @ ELSE Append(@, <<s, ent>>)]
    /\ log' = Append(log, [env |-> e, key |-> s, val |-> ent])

\* The history kept when the node at the current position is visited.
Snapshot ==
    snap' = [snap EXCEPT ![pos] =
               [k \in Envs \X Syms \X BOOLEAN |-> Get(k[1], k[2], k[3])]]

\* A declaration named s at the current position: its defining name is
\* registered in the innermost enclosing environment when the node is
\* visited; a scope-introducing declaration (add_env) gets its own
\* environment, which becomes the innermost one.
Decl(s, scope) ==
    /\ pos <= MaxPos
    /\ Add(cur, s, Entity(pos, MdDefault, <<>>))
    /\ IF scope
       THEN Create(pos, cur) /\ cur' = pos
       ELSE UNCHANGED <<live, parent, cur>>
    /\ pos' = pos + 1
    /\ query' = NoQuery /\ result' = <<>>
    /\ Snapshot
    /\ UNCHANGED <<refs, envIdle>>

\* A use clause (kind "use") or the automatic reference to Standard (kind
\* "std") at the current position: a referenced-environment descriptor
\* recorded on the innermost enclosing environment.  The standard unit is
\* there before a unit refers to it.
Use(name, kind, rec) ==
    /\ pos <= MaxPos
    /\ kind = "std" => std({}, DepthLimit) # NoEntity
    /\ refs' = [refs EXCEPT ![cur] = Append(@, Descriptor(pos, name, kind, rec))]
    /\ pos' = pos + 1
    /\ query' = NoQuery /\ result' = <<>>
    /\ Snapshot
    /\ UNCHANGED <<cur, live, parent, map, log, envIdle>>

\* The end of the innermost scope.
Leave ==
    /\ pos <= MaxPos
    /\ parent[cur] # EmptyEnv
    /\ cur' = parent[cur]
    /\ UNCHANGED <<pos, live, parent, map, refs, log, snap, query, result, envIdle>>

\* AdaNode.node_env: the environment the node at position n was visited in.
node_env(n) ==
    CHOOSE e \in live :
       \/ \E i \in DOMAIN map[e] : map[e][i][2].node = n
       \/ \E i \in DOMAIN refs[e] : refs[e][i].owner = n

\* query and result record one top-level call on the store as the
\* population pass left it.
Lookup(e, s, rec) ==
    /\ query = NoQuery
    /\ query' = Query("get", e, s, rec, NoNode)
    /\ result' = Get(e, s, rec)
    /\ UNCHANGED <<pos, cur, live, parent, map, refs, log, snap, envIdle>>

\* A name that is part of node host asks for its candidates, env bound to
\* the environment of the node.
ResolveName(tok, is_parent_pkg, host) ==
    /\ query = NoQuery
    /\ query' = Query("name", node_env(host), tok, ~is_parent_pkg,
                      IF parent_use_pkg_clause(host) # NoNode
                      THEN Sloc(host) ELSE NameSloc(host))
    /\ result' = env_elements_baseid(node_env(host), tok, is_parent_pkg, host,
                                      {}, DepthLimit)
    /\ UNCHANGED <<pos, cur, live, parent, map, refs, log, snap, envIdle>>

\* A name that is part of node host is resolved as a type name, origin
\* bound to the name and env to the environment of the node.
ResolveType(tok, host) ==
    /\ query = NoQuery
    /\ query' = Query("type", node_env(host), tok, TRUE, NameSloc(host))
    /\ result' = <<designated_type_impl(node_env(host), tok, NameSloc(host),
                                        {}, DepthLimit)>>
    /\ UNCHANGED <<pos, cur, live, parent, map, refs, log, snap, envIdle>>

\* Retrieving the standard unit.
LookupStd ==
    /\ query = NoQuery
    /\ query' = Query("std", RootEnv, "Standard", FALSE, NoNode)
    /\ result' = <<std({}, DepthLimit)>>
    /\ UNCHANGED <<pos, cur, live, parent, map, refs, log, snap, envIdle>>

EnvNext ==
    \/ \E s \in Syms, scope \in BOOLEAN : Decl(s, scope)
    \/ \E s \in Syms, rec \in BOOLEAN : Use(s, "use", rec)
    \/ \E rec \in BOOLEAN : Use("Standard", "std", rec)
    \/ Leave
    \/ \E e \in live, s \in Syms, rec \in BOOLEAN : Lookup(e, s, rec)
    \/ \E s \in Syms, pkg \in BOOLEAN, host \in 2..(pos - 1) :
          ResolveName(s, pkg, host)
    \/ \E s \in Syms, host \in 2..(pos - 1) : ResolveType(s, host)
    \/ LookupStd

SpecEnv == EnvInit /\ [][EnvNext]_envVars

(***************************************************************************)
(* Properties of the store                                                 *)
(***************************************************************************)
\* The entities added to e itself under s, in the order they were added.
AddedTo(e, s) ==
    LET hits == SelectSeq(log, LAMBDA a : a.env = e /\ a.key = s)
    IN Dedup([i \in DOMAIN hits |-> hits[i].val])

\* C1: a non-recursive get returns exactly the entities added to the
\* environment itself under the symbol, in the order they were added,
\* whatever its parent chain and its referenced environments hold; so does
\* the lookup of the standard unit in the root environment.
C1_NonRecursiveGet ==
    /\ (query.op = "get" /\ ~query.rec) => result = AddedTo(query.env, query.sym)
    /\ query.op = "std" => result = <<At(AddedTo(RootEnv, "Standard"), 0)>>

\* A non-recursive get that returns two entities where the recursive get
\* of the same symbol sees more.
C1_Witness ==
    /\ query.op = "get" /\ ~query.rec
    /\ Len(result) >= 2
    /\ Get(query.env, query.sym, TRUE) # result

RECURSIVE Chain(_)
\* The parent chain e0, e1, ..., en of e.
Chain(e) == IF e = EmptyEnv THEN <<>> ELSE <<e>> \o Chain(parent[e])

\* The entities a recursive get of s finds at level i of chain ch: those
\* stored there and those its referenced environments contribute.
FoundAt(ch, i, s) ==
    Range(OwnEntities(ch[i], s, NoNode, <<>>))
      \cup Range(Referenced(ch[i], s, NoNode, <<>>,
                            {<<ch[j], s>> : j \in 1..i}, DepthLimit - i))

\* C2: a recursive get without sequential_from contains the non-recursive
\* get of every level of the parent chain, orders what is found at a level
\* before what is found only at outer levels, and holds no entity twice.
C2_RecursiveGet ==
    (query.op = "get" /\ query.rec) =>
      LET ch == Chain(query.env)
          s  == query.sym
      IN /\ \A i \in DOMAIN ch : Range(Get(ch[i], s, FALSE)) \subseteq Range(result)
         /\ \A i, j \in DOMAIN result : i < j => result[i] # result[j]
         /\ \A i, j \in DOMAIN ch : i < j =>
              \A x \in FoundAt(ch, i, s) :
                \A y \in FoundAt(ch, j, s) \ UNION {FoundAt(ch, k, s) : k \in 1..i} :
                   /\ x \in Range(result) /\ y \in Range(result)
                   /\ IndexOf(result, x) < IndexOf(result, y)

\* A recursive get over a chain of three environments, two of whose levels
\* hold the symbol.
C2_Witness ==
    /\ query.op = "get" /\ query.rec
    /\ Len(Chain(query.env)) >= 3
    /\ \E i, j \in DOMAIN Chain(query.env) :
          /\ i < j
          /\ Get(Chain(query.env)[i], query.sym, FALSE) # <<>>
          /\ Get(Chain(query.env)[j], query.sym, FALSE) # <<>>
    /\ Len(result) >= 2

\* No entity a sequential lookup returned is declared at or after its
\* reference point.
C3_Before ==
    query.op \in {"name", "type"} =>
       \A i \in DOMAIN result :
          result[i] = NoEntity \/ Sloc(result[i].node) < query.from

\* The node a reference point lies just before: node p for Sloc(p), the
\* node after h for a name that is part of h.
NodeAfter(from) == (from + 1) \div 2

\* What a sequential lookup returned is what the same lookup without
\* sequential_from returned just before the node after its reference point
\* was visited: no declaration and no use clause placed after the
\* reference point, and no use clause placed at it, contributes.
C3_Frame ==
    (/\ query.op \in {"name", "type"}
     /\ NodeAfter(query.from) < pos
     /\ query.env < NodeAfter(query.from)) =>
       LET was == snap[NodeAfter(query.from)][<<query.env, query.sym, query.rec>>]
       IN IF query.op = "name" THEN result = was ELSE result = <<At(was, 0)>>

\* C3: a lookup with sequential_from = p returns no entity declared after
\* p: an identifier taken as a type name or as a name candidate never
\* resolves to a declaration placed after its reference point, and the
\* package name of a use clause sees neither that clause nor a later one.
C3_SequentialLookup == C3_Before /\ C3_Frame

\* The package name of a use clause is resolved while a declaration of that
\* name placed after the clause exists.
C3_Witness ==
    /\ query.op = "name"
    /\ query.from # NoNode /\ query.from % 2 = 0
    /\ Get(query.env, query.sym, query.rec) # result

MaxInst == 3     \* instantiations populated

\* The nodes of the unit, by position.
Gen == [integer |-> 2, boolean |-> 3, g |-> 4, t |-> 5, internal |-> 6, x |-> 7]

GenLast == Gen.x + 2 * MaxInst

GenNodes == 1..GenLast

GenSyms == {"X", "T", "Inst"}

GenDepth == GenLast * Cardinality(GenSyms \cup {"G"}) + 1

\* The instantiations populated so far.
Instances == {n \in (Gen.x + 1)..(pos - 1) : (n - Gen.x) % 2 = 1}

\* GenericInstantiation.instantiation_env_holder: the EnvHolder child of
\* the instantiation.
instantiation_env_holder(inst) == inst + 1

\* GenericPackageDecl.package_decl: the GenericPackageInternal child, after
\* the formal part.
package_decl(g) == g + 2

\* GenericPackageDecl.decl
decl(g) == Entity(package_decl(g.node), g.md, g.rebindings)

\* GenericInstantiation.designated_generic_decl, the generic being named G.
designated_generic_decl(inst) ==
    At(env_elements_baseid(RootEnv, "G", FALSE, inst, {}, GenDepth), 0)

\* rebind_env: the environment with one more rebinding to apply.
rebind_env(h, src, tgt) ==
    Handle(h.env, AppendRebinding(h.rebs, Rebinding(src, tgt)))

\* The mutant of GenericPackageInstantiation_defining_env: the environment
\* of the generic, not rebound.
defining_env_not_rebound(inst) ==
    Handle(children_env(decl(designated_generic_decl(inst)).node), <<>>)

\* GenericPackageInstantiation.defining_env
GenericPackageInstantiation_defining_env(inst) ==
    LET p == designated_generic_decl(inst)
        formal_env == children_env(p.node)
    IN rebind_env(Handle(children_env(decl(p).node), <<>>),
                  formal_env, children_env(instantiation_env_holder(inst)))

\* A recursive get through an environment handle.
GenGet(h, s) == GetI(h.env, FALSE, s, TRUE, NoNode, h.rebs, {}, GenDepth)

\* AdaNode.resolve_generic_actual on the name of a type: the type it
\* designates.
resolve_generic_actual(e, actual) == At(Get(e, actual, TRUE), 0)

GenInit ==
    /\ pos = Gen.x + 1
    /\ cur = RootEnv
    /\ live = {RootEnv, Gen.g, Gen.internal}
    /\ parent = [e \in GenNodes |->
                   IF e = Gen.g THEN RootEnv
                   ELSE IF e = Gen.internal THEN Gen.g ELSE EmptyEnv]
    /\ map = [e \in GenNodes |->
                IF e = RootEnv
                THEN << <<"Integer", Entity(Gen.integer, MdDefault, <<>>)>>,
                        <<"Boolean", Entity(Gen.boolean, MdDefault, <<>>)>>,
                        <<"G", Entity(Gen.g, MdDefault, <<>>)>> >>
                ELSE IF e = Gen.g THEN << <<"T", Entity(Gen.t, MdDefault, <<>>)>> >>
                ELSE IF e = Gen.internal THEN << <<"X", Entity(Gen.x, MdDefault, <<>>)>> >>
                ELSE <<>>]
    /\ refs = [e \in GenNodes |-> <<>>]
    /\ log = <<>>
    /\ snap = <<>>
    /\ query = NoQuery
    /\ result = <<>>
    /\ handle = NoHandle
    /\ NothingResolved

\* GenericPackageInstantiation.env_spec: the instantiation is added under
\* its name, its EnvHolder child gets an environment, and the actual is
\* added to that environment under the name of the formal.
Instantiate(actual) ==
    /\ pos + 1 <= GenLast
    /\ LET holder == instantiation_env_holder(pos)
       IN /\ live' = live \cup {holder}
          /\ parent' = [parent EXCEPT ![holder] = cur]
          /\ map' = [map EXCEPT
                       ![cur] = Append(@, <<"Inst", Entity(pos, MdDefault, <<>>)>>),
                       ![holder] = << <<"T", resolve_generic_actual(cur, actual)>> >>]
          /\ log' = log \o << [env |-> cur, key |-> "Inst",
                                 val |-> Entity(pos, MdDefault, <<>>)],
                                [env |-> holder, key |-> "T",
                                 val |-> resolve_generic_actual(cur, actual)] >>
    /\ pos' = pos + 2
    /\ UNCHANGED <<cur, refs, snap, query, result, handle, resVars>>

\* The defining environment of an instantiation is asked for.
DefiningEnv(inst) ==
    /\ handle' = GenericPackageInstantiation_defining_env(inst)
    /\ query' = NoQuery /\ result' = <<>>
    /\ UNCHANGED <<pos, cur, live, parent, map, refs, log, snap, resVars>>

\* The rebinding of an instantiation is applied to the environment at hand.
RebindAgain(inst) ==
    /\ handle # NoHandle
    /\ Len(handle.rebs) <= MaxInst
    /\ handle' = rebind_env(handle, children_env(designated_generic_decl(inst).node),
                            children_env(instantiation_env_holder(inst)))
    /\ query' = NoQuery /\ result' = <<>>
    /\ UNCHANGED <<pos, cur, live, parent, map, refs, log, snap, resVars>>

\* A lookup through the environment at hand.
GenLookup(s) ==
    /\ handle # NoHandle
    /\ query' = Query("gen", handle.env, s, TRUE, NoNode)
    /\ result' = GenGet(handle, s)
    /\ UNCHANGED <<pos, cur, live, parent, map, refs, log, snap, handle, resVars>>

GenNext ==
    \/ \E actual \in {"Integer", "Boolean"} : Instantiate(actual)
    \/ \E inst \in Instances : DefiningEnv(inst)
    \/ \E inst \in Instances : RebindAgain(inst)
    \/ \E s \in GenSyms : GenLookup(s)

SpecGen == GenInit /\ [][GenNext]_envVars

\* The rebindings of the instantiations populated so far.
InstRebindings ==
    {Rebinding(Gen.g, instantiation_env_holder(inst)) : inst \in Instances}

ActualOf(inst) == At(Get(instantiation_env_holder(inst), "T", FALSE), 0)

\* The declaration X of the generic, through the defining environment of an
\* instantiation.
XThrough(inst) == At(GenGet(GenericPackageInstantiation_defining_env(inst), "X"), 0)

\* C6: through the defining environments of two instantiations of one
\* generic with different actuals, one declaration of the generic yields
\* two entities with the same node and different rebinding chains, hence
\* not equal; through the same instantiation it yields equal entities,
\* whatever was instantiated in between.
C6_DistinctInstances ==
    /\ \A i1, i2 \in Instances :
          ActualOf(i1) # ActualOf(i2) =>
             /\ XThrough(i1).node = Gen.x /\ XThrough(i2).node = Gen.x
             /\ XThrough(i1).rebindings # XThrough(i2).rebindings
             /\ XThrough(i1) # XThrough(i2)
    /\ \A inst \in Instances :
          (/\ query.op = "gen" /\ query.sym = "X"
           /\ handle = GenericPackageInstantiation_defining_env(inst)) =>
             result = <<XThrough(inst)>>

\* X was looked up through one instantiation, a second instantiation with a
\* different actual exists.
C6_Witness ==
    /\ query.op = "gen" /\ query.sym = "X"
    /\ \E i1, i2 \in Instances :
          /\ ActualOf(i1) # ActualOf(i2)
          /\ handle = GenericPackageInstantiation_defining_env(i1)
          /\ result = <<XThrough(i1)>>
          /\ i1 < i2


(***************************************************************************)
(* Resolution (SpecRes).  The unit resolved is                             *)
(*                                                                         *)
(*    procedure P is                                                       *)
(*       type Arr is array (1 .. 2) of Integer;                            *)
(*       X : <type_expr>;  B : <type_expr>;  R : <type_expr>;              *)
(*    begin                                                                *)
(*       X := X;                              -- s1                        *)
(*       if B then R := (X, X); end if;       -- s2, s3 nested in it       *)
(*       while B loop X := X; end loop;       -- s4, s5 nested in it       *)
(*       case B is when others => R := (X, X); end case;                   *)
(*                                            -- s6, s7 nested in it       *)
(*    end P;                                                               *)
(*                                                                         *)
(* with Integer and Boolean declared in package Standard.  The type each   *)
(* object is declared with is chosen when the unit is written.  List and   *)
(* association nodes, which resolve_names_internal only walks through, are *)
(* left out of the tree.                                                   *)
(*                                                                         *)
(* A second unit holds the calls and operators:                            *)
(*                                                                         *)
(*    procedure Q is                                                       *)
(*       function F (A : Integer) return Integer;          -- f1           *)
(*       function F (A : Float) return Integer;            -- f2           *)
(*       function G (A : Integer) return Integer;          -- g1           *)
(*       function G (A : Integer; B : Integer := 0) return Integer; -- g2  *)
(*       X : <type_expr>;  B : <type_expr>;                                *)
(*       Y : <type_expr> := 1 + 2;                         -- y            *)
(*       function H return Float;                          -- h1           *)
(*       function H return Integer;                        -- h2           *)
(*    begin                                                                *)
(*       X := F (1);                                       -- c1           *)
(*       X := F (B);                                       -- c2           *)
(*       X := G (1);                                       -- c3           *)
(*       X := F (H);                                       -- c4           *)
(*    end Q;                                                               *)
(*                                                                         *)
(* with Float and the operators "+" on Integer and on Float declared in    *)
(* Standard beside Integer and Boolean.                                    *)
(***************************************************************************)
Ast == [standard |-> 2, integer |-> 3, boolean |-> 4, p |-> 5, arr |-> 6,
        x |-> 7, b |-> 8, r |-> 9,
        s1 |-> 10, s2 |-> 13, s3 |-> 15, agg |-> 17, s4 |-> 20, s5 |-> 23,
        float |-> 26, plus_int |-> 27, plus_float |-> 28, q |-> 30,
        f1 |-> 31, f2 |-> 32, g1 |-> 33, g2 |-> 34, qx |-> 35, qb |-> 36,
        y |-> 37, sum |-> 38, op |-> 40, c1 |-> 42, c2 |-> 47, c3 |-> 52,
        h1 |-> 57, h2 |-> 58, c4 |-> 59, s6 |-> 64, s7 |-> 67,
        l |-> 72, a |-> 73, ab |-> 75, c_spec |-> 77, c_body |-> 79,
        with_m |-> 81, cx |-> 82, k |-> 83, sl |-> 84, sk |-> 87, sm |-> 90,
        main |-> 93, t |-> 94, nt |-> 95, d1 |-> 96, g |-> 97, d2 |-> 98,
        b2 |-> 99, b1 |-> 100, pk |-> 101, u |-> 102, v |-> 103, priv |-> 104,
        w |-> 105, si |-> 106, memb |-> 108]

AstNode(kind, tok, kids) == [kind |-> kind, tok |-> tok, kids |-> kids]

PTree ==
    [n \in (2..25) \cup (64..71) |->
       CASE n = 2  -> AstNode("PackageDecl", "Standard", <<3, 4>>)
         [] n = 3  -> AstNode("TypeDecl", "Integer", <<>>)
         [] n = 4  -> AstNode("TypeDecl", "Boolean", <<>>)
         [] n = 5  -> AstNode("SubpBody", "P", <<6, 7, 8, 9, 10, 13, 20, 64>>)
         [] n = 6  -> AstNode("TypeDecl", "Arr", <<>>)
         [] n = 7  -> AstNode("ObjectDecl", "X", <<>>)
         [] n = 8  -> AstNode("ObjectDecl", "B", <<>>)
         [] n = 9  -> AstNode("ObjectDecl", "R", <<>>)
         [] n = 10 -> AstNode("AssignStmt", "", <<11, 12>>)
         [] n = 13 -> AstNode("IfStmt", "", <<14, 15>>)
         [] n = 14 -> AstNode("Identifier", "B", <<>>)
         [] n = 15 -> AstNode("AssignStmt", "", <<16, 17>>)
         [] n = 16 -> AstNode("Identifier", "R", <<>>)
         [] n = 17 -> AstNode("Aggregate", "", <<18, 19>>)
         [] n = 20 -> AstNode("WhileLoopStmt", "", <<21, 23>>)
         [] n = 21 -> AstNode("WhileLoopSpec", "", <<22>>)
         [] n = 22 -> AstNode("Identifier", "B", <<>>)
         [] n = 23 -> AstNode("AssignStmt", "", <<24, 25>>)
         [] n = 64 -> AstNode("CaseStmt", "", <<65, 66>>)
         [] n = 65 -> AstNode("Identifier", "B", <<>>)
         [] n = 66 -> AstNode("CaseStmtAlternative", "", <<67>>)
         [] n = 67 -> AstNode("AssignStmt", "", <<68, 69>>)
         [] n = 68 -> AstNode("Identifier", "R", <<>>)
         [] n = 69 -> AstNode("Aggregate", "", <<70, 71>>)
         [] OTHER  -> AstNode("Identifier", "X", <<>>)]

QTree ==
    [n \in 26..63 |->
       CASE n = 26 -> AstNode("TypeDecl", "Float", <<>>)
         [] n \in {27, 28} -> AstNode("SubpDecl", "\"+\"", <<>>)
         [] n = 30 -> AstNode("SubpBody", "Q", <<31, 32, 33, 34, 35, 36, 37, 57, 58, 42, 47, 52, 59>>)
         [] n \in {31, 32} -> AstNode("SubpDecl", "F", <<>>)
         [] n \in {33, 34} -> AstNode("SubpDecl", "G", <<>>)
         [] n = 35 -> AstNode("ObjectDecl", "X", <<>>)
         [] n = 36 -> AstNode("ObjectDecl", "B", <<>>)
         [] n = 37 -> AstNode("ObjectDecl", "Y", <<38>>)
         [] n = 38 -> AstNode("BinOp", "", <<39, 40, 41>>)
         [] n = 40 -> AstNode("Op", "\"+\"", <<>>)
         [] n \in {39, 41, 46, 56} -> AstNode("IntLiteral", "1", <<>>)
         [] n \in {42, 47, 52, 59} -> AstNode("AssignStmt", "", <<n + 1, n + 2>>)
         [] n \in {44, 49, 54, 61} -> AstNode("CallExpr", "", <<n + 1, n + 2>>)
         [] n \in {45, 50, 62} -> AstNode("Identifier", "F", <<>>)
         [] n \in {57, 58} -> AstNode("SubpDecl", "H", <<>>)
         [] n = 63 -> AstNode("Identifier", "H", <<>>)
         [] n = 55 -> AstNode("Identifier", "G", <<>>)
         [] n = 51 -> AstNode("Identifier", "B", <<>>)
         [] n \in {43, 48, 53, 60} -> AstNode("Identifier", "X", <<>>)
         [] OTHER -> AstNode("None", "", <<>>)]

\* The library function L, the packages A and A.B, and the child procedure
\* A.B.C; a with clause is in the text of its unit when units.written
\* holds it.
WTree ==
    [n \in (72..92) \cup (106..110) |->
       CASE n = 72 -> AstNode("SubpDecl", "L", <<>>)
         [] n = 73 -> AstNode("PackageDecl", "A", <<>>)
         [] n = 75 -> AstNode("PackageDecl", "B", <<>>)
         [] n = 77 -> AstNode("SubpDecl", "C", <<>>)
         [] n = 79 -> AstNode("SubpBody", "C", <<82, 83, 84, 87, 90, 106>>)
         [] n \in {74, 76, 78, 80} -> AstNode("WithClause", "L", <<>>)
         [] n = 81 -> AstNode("WithClause", "M", <<>>)
         [] n = 82 -> AstNode("ObjectDecl", "X", <<>>)
         [] n = 83 -> AstNode("SubpDecl", "K", <<>>)
         [] n \in {84, 87, 90, 106} -> AstNode("AssignStmt", "", <<n + 1, n + 2>>)
         [] n = 108 -> AstNode("MembershipExpr", "", <<109, 110>>)
         [] n = 110 -> AstNode("Identifier", "Integer", <<>>)
         [] n = 86 -> AstNode("Identifier", "L", <<>>)
         [] n = 89 -> AstNode("Identifier", "K", <<>>)
         [] n = 92 -> AstNode("Identifier", "M", <<>>)
         [] OTHER  -> AstNode("Identifier", "X", <<>>)]

\* The unit with nested and overloaded subprograms, a tagged type T, an
\* untagged type N and a package with a private part.
MTree ==
    [n \in 93..105 |->
       CASE n = 93  -> AstNode("SubpBody", "Main", <<94, 95, 96, 97, 100, 101>>)
         [] n = 94  -> AstNode("TypeDecl", "T", <<>>)
         [] n = 95  -> AstNode("TypeDecl", "N", <<>>)
         [] n = 97  -> AstNode("SubpBody", "G", <<98, 99>>)
         [] n \in {96, 98} -> AstNode("SubpDecl", "F", <<>>)
         [] n \in {99, 100} -> AstNode("SubpBody", "F", <<>>)
         [] n = 101 -> AstNode("PackageDecl", "Pk", <<102, 103, 104>>)
         [] n = 102 -> AstNode("TypeDecl", "U", <<>>)
         [] n = 103 -> AstNode("SubpDecl", "V", <<>>)
         [] n = 104 -> AstNode("PrivatePart", "__privatepart", <<105>>)
         [] OTHER   -> AstNode("SubpDecl", "W", <<>>)]

Tree ==
    [n \in 2..110 |->
       IF n \in DOMAIN PTree THEN PTree[n]
       ELSE IF n \in DOMAIN QTree THEN QTree[n]
       ELSE IF n \in DOMAIN WTree THEN WTree[n] ELSE MTree[n]]

\* The unit a node belongs to, named by its library item.
UnitOf(n) ==
    IF n \in 30..63 THEN Ast.q
    ELSE IF n = 72 THEN Ast.l
    ELSE IF n \in 73..74 THEN Ast.a
    ELSE IF n \in 75..76 THEN Ast.ab
    ELSE IF n \in 77..78 THEN Ast.c_spec
    ELSE IF n \in (79..92) \cup (106..110) THEN Ast.c_body
    ELSE IF n \in 93..105 THEN Ast.main
    ELSE Ast.p

children(n) == Tree[n].kids

\* The fields of the statements and expressions, by their place among the
\* children.
dest(n)      == children(n)[1]
expr(n)      == children(n)[Len(children(n))]
cond_expr(n) == children(n)[1]
spec(n)      == children(n)[1]
assocs(n)    == children(n)
left(n)      == children(n)[1]
operator(n)  == children(n)[2]
right(n)     == children(n)[3]
name(n)      == children(n)[1]
params(n)    == SubSeq(children(n), 2, Len(children(n)))
default_expr(n) == IF children(n) = <<>> THEN NoNode ELSE children(n)[1]

\* The specification of a subprogram declaration: its formals (name, type,
\* whether mandatory) and the type it returns.
Formal(nm, ty, mandatory) == [name |-> nm, type |-> ty, mandatory |-> mandatory]

subp_spec(n) ==
    CASE n = Ast.plus_int ->
           [params |-> <<Formal("Left", "Integer", TRUE), Formal("Right", "Integer", TRUE)>>,
            returns |-> "Integer"]
      [] n = Ast.plus_float ->
           [params |-> <<Formal("Left", "Float", TRUE), Formal("Right", "Float", TRUE)>>,
            returns |-> "Float"]
      [] n = Ast.f2 ->
           [params |-> <<Formal("A", "Float", TRUE)>>, returns |-> "Integer"]
      [] n = Ast.h1 -> [params |-> <<>>, returns |-> "Float"]
      [] n \in {Ast.l, Ast.k} -> [params |-> <<>>, returns |-> "Integer"]
      [] n = Ast.c_spec -> [params |-> <<>>, returns |-> ""]
      [] n \in 93..105 ->
           [params |-> IF n \in DOMAIN type_expr /\ type_expr[n] # ""
                       THEN <<Formal("A", type_expr[n], TRUE)>> ELSE <<>>,
            returns |-> ""]
      [] n = Ast.h2 -> [params |-> <<>>, returns |-> "Integer"]
      [] n = Ast.g2 ->
           [params |-> <<Formal("A", "Integer", TRUE), Formal("B", "Integer", FALSE)>>,
            returns |-> "Integer"]
      [] OTHER ->
           [params |-> <<Formal("A", "Integer", TRUE)>>, returns |-> "Integer"]

TypeNames == {"Integer", "Boolean", "Arr"}

ObjectDecls == {n \in DOMAIN Tree : Tree[n].kind = "ObjectDecl"}

SubpDecls == {n \in DOMAIN Tree : Tree[n].kind = "SubpDecl"}

\* The nodes with a reference variable: identifiers, call expressions (the
\* variable of their name) and operators.
Names == {n \in DOMAIN Tree : Tree[n].kind \in {"Identifier", "CallExpr", "Op"}}

Exprs == {n \in DOMAIN Tree :
            Tree[n].kind \in {"Identifier", "Aggregate", "CallExpr", "BinOp", "IntLiteral",
                               "MembershipExpr"}}

\* Stmt.xref_entry_point and ObjectDecl.xref_entry_point: the statements and
\* the object declarations are the entry points.
xref_entry_point(n) ==
    Tree[n].kind \in {"AssignStmt", "IfStmt", "WhileLoopStmt", "CaseStmt", "ObjectDecl"}

EntryPoints == {n \in DOMAIN Tree : xref_entry_point(n)}

\* A driver for which no node stops the resolution.
never_stop(n) == FALSE

\* AdaNode.xref_stop_resolution, overridden by Aggregate.
xref_stop_resolution(n) == Tree[n].kind = "Aggregate"

\* The logic variables: Expr.type_var on every expression, Name.ref_var on
\* every name.
type_var(n) == <<n, "type_var">>
ref_var(n)  == IF Tree[n].kind = "CallExpr" THEN <<name(n), "ref_var">>
               ELSE <<n, "ref_var">>

LogicVars == {type_var(n) : n \in Exprs} \cup {ref_var(n) : n \in Names}

NoVar == <<NoNode, "none">>

Unbound    == [bound |-> FALSE, val |-> NoEntity]
BoundTo(v) == [bound |-> TRUE, val |-> v]

Fresh == [v \in LogicVars |-> Unbound]

\* LogicVar.get_value: null while the variable is not bound.
get_value(b, v) == IF v \in DOMAIN b /\ b[v].bound THEN b[v].val ELSE NoEntity

\* Expr.type_val, Name.ref_val, and AdaNode's defaults for the other nodes.
type_val(b, n) == IF n \in Exprs THEN get_value(b, type_var(n)) ELSE NoEntity
ref_val(b, n)  == IF n \in Names THEN get_value(b, ref_var(n)) ELSE NoEntity

(***************************************************************************)
(* The matching of the actuals of a call against the formals of a         *)
(* subprogram specification.  A formal is a record with its name and       *)
(* whether it is mandatory; an actual is its designator, "" when it is     *)
(* positional.                                                             *)
(***************************************************************************)
NoMatch == 0

\* BaseFormalParamHolder.match_param_list: for each actual the formal it is
\* matched to (its position among the formals), NoMatch when there is none.
\* i counts from 1 here and from 0 in the code.
match_param_list(formals, actuals, is_dottable_subp) ==
    [i \in DOMAIN actuals |->
       IF actuals[i] = ""
       THEN LET idx == IF is_dottable_subp THEN i + 1 ELSE i
            IN IF idx \in DOMAIN formals THEN idx ELSE NoMatch
       ELSE IF \E k \in DOMAIN formals : formals[k].name = actuals[i]
            THEN CHOOSE k \in DOMAIN formals :
                    /\ formals[k].name = actuals[i]
                    /\ \A h \in DOMAIN formals : formals[h].name = actuals[i] => k <= h
            ELSE NoMatch]

\* BaseSubpSpec.nb_min_params and nb_max_params
nb_min_params(formals) == Cardinality({k \in DOMAIN formals : formals[k].mandatory})
nb_max_params(formals) == Len(formals)

\* BaseSubpSpec.is_matching_param_list
is_matching_param_list(formals, actuals, is_dottable_subp) ==
    LET match_list == match_param_list(formals, actuals, is_dottable_subp)
        max == IF is_dottable_subp THEN nb_max_params(formals) - 1
               ELSE nb_max_params(formals)
        min == IF is_dottable_subp THEN nb_min_params(formals) - 1
               ELSE nb_min_params(formals)
    IN /\ Len(actuals) <= max
       /\ \A i \in DOMAIN match_list : match_list[i] # NoMatch
       /\ Cardinality({i \in DOMAIN match_list : formals[match_list[i]].mandatory}) = min

\* BaseSubpSpec.paramless
paramless(formals, md) ==
    \/ md.dottable_subp /\ nb_min_params(formals) = 1
    \/ nb_min_params(formals) = 0

(***************************************************************************)
(* The properties of declarations the equations are built from.            *)
(***************************************************************************)
\* The environment resolve_names binds env to: the node_env of the
\* statements of P is the environment of P.
enclosing_env(n) == children_env(UnitOf(n))

\* .cast(BaseTypeDecl.entity): null unless the entity is a type declaration.
cast_BaseTypeDecl(ent) ==
    IF ent.node \in DOMAIN Tree /\ Tree[ent.node].kind = "TypeDecl"
    THEN ent ELSE NoEntity

\* BaseId.designated_type_impl as a property of the name tok, with its cast.
designated_type(e, tok, origin) ==
    cast_BaseTypeDecl(designated_type_impl(e, tok, Sloc(origin), {}, DepthLimit))

\* AdaNode.std_entity and AdaNode.bool_type.
std_entity(sym) ==
    At(GetI(std_env({}, DepthLimit), FALSE, sym, TRUE, NoNode, <<>>, {}, DepthLimit), 0)

bool_type == std_entity("Boolean")

\* BaseTypeDecl.canonical_type: the declaration itself, there are no subtypes.
canonical_type(ent) == ent

\* BasicDecl.expr_type: the designated type of the type expression of an
\* object declaration (SubtypeIndication.designated_type, evaluated in the
\* environment of the declaration) or of the type a subprogram returns
\* (BasicSubpDecl.type_expression); a type declaration is its own type.
expr_type(ent, origin) ==
    IF ent.node \in ObjectDecls
    THEN designated_type(node_env(ent.node), type_expr[ent.node], origin)
    ELSE IF ent.node \in SubpDecls
    THEN designated_type(IF ent.node \in live THEN ent.node ELSE node_env(ent.node),
                         subp_spec(ent.node).returns, origin)
    ELSE cast_BaseTypeDecl(ent)

\* BasicDecl.canonical_expr_type
canonical_expr_type(ent, origin) ==
    IF expr_type(ent, origin) = NoEntity THEN NoEntity
    ELSE canonical_type(expr_type(ent, origin))

\* BaseTypeDecl.matching_type and matching_assign_type: there are neither
\* access nor classwide types in the unit.
matching_type(actual, expected) == actual = expected

matching_assign_type(actual, expected) == matching_type(actual, expected)

\* A formal that any actual matches.
any_formal_type(actual, formal) == TRUE

\* BaseTypeDecl.matching_formal_type, without classwide and access types.
matching_formal_type(actual, formal) == actual = formal

\* BaseTypeDecl.is_int_type: TypeDecl asks its definition, and Integer is the
\* one signed integer type.
is_int_type(td) == td.node = Ast.integer

\* TypeDecl.array_def: the type definition cast to ArrayTypeDef.
array_def(td) == IF td.node = Ast.arr THEN td ELSE NoEntity

\* ArrayTypeDef.comp_type: the designated type of the component's type
\* expression.
comp_type(atd, origin) ==
    canonical_type(designated_type(node_env(atd.node), "Integer", origin))

(***************************************************************************)
(* Equations.  An equation is a conjunction of atoms; building one may     *)
(* yield no equation (No(EquationType)) or raise a Property_Error.         *)
(***************************************************************************)
Atom(op, a, b, val, dom, conv) ==
    [op |-> op, a |-> a, b |-> b, val |-> val, dom |-> dom, conv |-> conv]

Equation(atoms) == [st |-> "ok", atoms |-> atoms]
NoEquation      == [st |-> "null", atoms |-> <<>>]
PropertyError   == [st |-> "error", atoms |-> <<>>]

LogicTrue == Equation(<<>>)

\* Bind(var, value)
Bind(v, val) == Equation(<<Atom("bind", v, NoVar, val, <<>>, "")>>)

\* Bind(from, to, conv_prop): to is from's value through conv_prop.
BindConv(from, to, conv) == Equation(<<Atom("conv", from, to, NoEntity, <<>>, conv)>>)

\* Bind(a, b, eq_prop=...): a and b hold values eq_prop relates.
BindEq(a, b, eqp) == Equation(<<Atom("eq", a, b, NoEntity, <<>>, eqp)>>)

\* Bind(var, value, eq_prop=...): var holds a value eq_prop relates to value.
BindVal(v, val, eqp) == Equation(<<Atom("bind", v, NoVar, val, <<>>, eqp)>>)

\* var.domain(values)
Domain(v, dom) == Equation(<<Atom("domain", v, NoVar, NoEntity, dom, "")>>)

\* Predicate(pred, var)
Predicate(pred, v) == Equation(<<Atom("pred", v, NoVar, NoEntity, <<>>, pred)>>)

\* e1 | e2 | ... and logic_any: a disjunction holds its branches in order;
\* an error raised while building a branch propagates.
Or(branches) ==
    IF \E k \in DOMAIN branches : branches[k].st # "ok" THEN PropertyError
    ELSE Equation(<<Atom("any", NoVar, NoVar, NoEntity,
                         [k \in DOMAIN branches |-> branches[k].atoms], "")>>)

\* e1 & e2: an error raised while building either operand propagates, and
\* so does the dereference of a null operand.
And(e1, e2) ==
    IF e1.st # "ok" \/ e2.st # "ok" THEN PropertyError
    ELSE Equation(e1.atoms \o e2.atoms)

(***************************************************************************)
(* The xref_equation builders.  env and origin are the dynamic variables   *)
(* resolve_names binds; b holds the values of the logic variables at the   *)
(* time the equation is built.                                             *)
(***************************************************************************)
RECURSIVE xref_equation(_, _, _, _)
RECURSIVE logic_all(_, _, _, _, _, _)
RECURSIVE sub_equations(_, _, _, _, _)
RECURSIVE param_matches(_, _, _, _, _)

\* AdaNode.sub_equation
sub_equation(n, env, origin, b) ==
    IF xref_stop_resolution(n) THEN LogicTrue ELSE xref_equation(n, env, origin, b)

\* BaseId.parent_callexpr: the call expression the identifier names.
parent_callexpr(n) ==
    IF \E c \in DOMAIN Tree : Tree[c].kind = "CallExpr" /\ name(c) = n
    THEN CHOOSE c \in DOMAIN Tree : Tree[c].kind = "CallExpr" /\ name(c) = n
    ELSE NoNode

\* AssocList.unpacked_params, as the designator of each actual: the calls of
\* the unit have positional actuals only.
unpacked_params(pc) == [i \in DOMAIN params(pc) |-> ""]

unpacked_formal_params(subp) == subp_spec(subp).params

\* BaseTypeDecl.array_ndims and CallExpr.check_type: the arrays of the units
\* have one dimension and no call is the name of another.
array_ndims(typ) == IF array_def(typ) # NoEntity THEN 1 ELSE 0

check_type(pc, typ) == array_ndims(typ) = Len(params(pc))

\* matching_subp in env_elements_baseid
matching_subp(pc, e, origin) ==
    \/ is_matching_param_list(unpacked_formal_params(e.node), unpacked_params(pc),
                              e.md.dottable_subp)
    \/ /\ expr_type(e, origin) # NoEntity
       /\ paramless(unpacked_formal_params(e.node), e.md)
       /\ check_type(pc, expr_type(e, origin))

\* BaseId.env_elements_impl: the second half of env_elements_baseid filters
\* what the lookup found.
env_elements_impl(n, env, origin) ==
    LET items == env_elements_baseid(env, Tree[n].tok, FALSE, n, {}, DepthLimit)
        pc    == parent_callexpr(n)
    IN SelectSeq(items,
         LAMBDA e :
           IF pc = NoNode
           THEN e.node \in SubpDecls => paramless(unpacked_formal_params(e.node), e.md)
           ELSE CASE e.node \in SubpDecls -> matching_subp(pc, e, origin)
                  [] Tree[e.node].kind = "TypeDecl" -> Len(params(pc)) = 1
                  [] OTHER -> check_type(pc, expr_type(e, origin)))

\* The elements from the last found to the first.
env_elements_last_first(n, env, origin) ==
    [k \in DOMAIN env_elements_impl(n, env, origin) |->
       env_elements_impl(n, env, origin)[Len(env_elements_impl(n, env, origin)) + 1 - k]]

\* AdaNode.is_library_item: the parent of the node is a LibraryItem.
is_library_item(n) ==
    n \in {Ast.standard, Ast.p, Ast.q, Ast.l, Ast.a, Ast.ab, Ast.c_spec, Ast.c_body,
           Ast.main}

\* AnalysisUnit.is_referenced_from: the unit loader recorded that unit u
\* references refd_unit.
is_referenced_from(refd_unit, u) == <<u, refd_unit>> \in units.referenced

\* Name.referenced_unit(UnitSpecification) on the defining name of unit u,
\* an external property: the specification of the unit the name designates,
\* NoNode when it is not loaded.
referenced_unit(u) ==
    LET item == IF u = Ast.c_body THEN Ast.c_spec
                ELSE IF Tree[u].kind = "SubpBody" THEN NoNode
                ELSE u
    IN IF item \in live THEN item ELSE NoNode

\* AdaNode.spec_unit: for a body, the unit its defining name designates.
spec_unit(u) ==
    IF Tree[u].kind = "SubpBody" THEN referenced_unit(u) ELSE NoNode

\* AdaNode.parent_unit_spec: for a unit whose defining name is a dotted
\* name, the unit that name designates.
parent_unit_spec(u) ==
    IF u \in {Ast.ab, Ast.c_spec, Ast.c_body} THEN referenced_unit(u) ELSE NoNode

\* A filter that takes every unit for visible.
always_visible(n, refd_unit) == TRUE

\* AdaNode.has_with_visibility
has_with_visibility(n, refd_unit) ==
    \/ is_referenced_from(refd_unit, UnitOf(n))
    \/ /\ spec_unit(UnitOf(n)) # NoNode
       /\ is_referenced_from(refd_unit, spec_unit(UnitOf(n)))
    \/ /\ parent_unit_spec(UnitOf(n)) # NoNode
       /\ is_referenced_from(refd_unit, parent_unit_spec(UnitOf(n)))

\* Name.env_elements: env_elements_impl without the library items of units
\* the name's unit has no with visibility on.
env_elements(n, env, origin) ==
    SelectSeq(env_elements_impl(n, env, origin),
              LAMBDA e : ~is_library_item(e.node)
                         \/ has_with_visibility(n, UnitOf(e.node)))

\* BaseId.xref_equation
BaseId_xref_equation(n, env, origin, b) ==
    LET dt == designated_type(env, Tree[n].tok, origin)
    IN IF dt # NoEntity
       THEN And(Bind(ref_var(n), dt), Bind(type_var(n), dt))
       ELSE And(Domain(ref_var(n), env_elements(n, env, origin)),
                BindConv(ref_var(n), type_var(n), "canonical_expr_type"))

\* Aggregate.xref_equation: td and atd are dereferenced, which raises when
\* the aggregate's own type is not bound, and the record case dereferences
\* the record definition, which TypeDecl.record_def leaves null for the
\* types of the unit.
Aggregate_xref_equation(n, env, origin, b) ==
    LET td == cast_BaseTypeDecl(type_val(b, n))
    IN IF td = NoEntity THEN PropertyError
       ELSE IF array_def(td) = NoEntity THEN PropertyError
       ELSE logic_all(assocs(n), 1, array_def(td), env, origin, b)

\* assocs.logic_all(lambda assoc: assoc.expr.sub_equation
\*                                & Bind(assoc.expr.type_var, atd.comp_type))
logic_all(kids, k, atd, env, origin, b) ==
    IF k > Len(kids) THEN LogicTrue
    ELSE And(And(sub_equation(kids[k], env, origin, b),
                 Bind(type_var(kids[k]), comp_type(atd, origin))),
             logic_all(kids, k + 1, atd, env, origin, b))

\* AssignStmt.xref_equation
AssignStmt_xref_equation(n, env, origin, b) ==
    And(And(sub_equation(dest(n), env, origin, b),
            sub_equation(expr(n), env, origin, b)),
        BindEq(type_var(expr(n)), type_var(dest(n)), "matching_assign_type"))

\* An equation for the if statement that leaves the condition's own
\* equation out.
IfStmt_type_only(n, env, origin, b) ==
    Bind(type_var(cond_expr(n)), bool_type)

\* IfStmt.xref_equation; the statement has no elsif part.
IfStmt_xref_equation(n, env, origin, b) ==
    And(sub_equation(cond_expr(n), env, origin, b),
        Bind(type_var(cond_expr(n)), bool_type))

\* WhileLoopSpec.xref_equation
WhileLoopSpec_xref_equation(n, env, origin, b) ==
    And(sub_equation(expr(n), env, origin, b),
        Bind(type_var(expr(n)), bool_type))

\* BaseLoopStmt.xref_equation
BaseLoopStmt_xref_equation(n, env, origin, b) ==
    xref_equation(spec(n), env, origin, b)

\* IntLiteral.xref_equation
IntLiteral_xref_equation(n, env, origin, b) ==
    Predicate("is_int_type", type_var(n))

\* Op.subprograms: the subprogram declarations the operator's name gets.
subprograms(n, env) ==
    SelectSeq(Get(env, Tree[n].tok, TRUE), LAMBDA e : e.node \in SubpDecls)

\* The type of the k-th formal (BaseFormalParamDecl.type) and the type a
\* subprogram returns, designated from the subprogram's environment.
formal_type(subp, k, origin) ==
    canonical_type(designated_type(node_env(subp), unpacked_formal_params(subp)[k].type,
                                   origin))

returns(subp, origin) ==
    designated_type(node_env(subp), subp_spec(subp).returns, origin)

\* BinOp.no_overload_equation
no_overload_equation(n) ==
    And(BindEq(type_var(n), type_var(left(n)), ""),
        BindEq(type_var(n), type_var(right(n)), ""))

\* A branch that binds the operator and leaves the types alone.
BinOp_untyped(n, subp, origin) == Bind(ref_var(operator(n)), subp)

\* The branch of BinOp.xref_equation for one subprogram; ps.at(k) is null
\* past the last formal, and its dereference raises.
BinOp_overload(n, subp, origin) ==
    IF Len(unpacked_formal_params(subp.node)) < 2 THEN PropertyError
    ELSE And(And(And(Bind(type_var(left(n)), formal_type(subp.node, 1, origin)),
                     Bind(type_var(right(n)), formal_type(subp.node, 2, origin))),
                 Bind(type_var(n), returns(subp.node, origin))),
             Bind(ref_var(operator(n)), subp))

\* BinOp.xref_equation
BinOp_xref_equation(n, env, origin, b) ==
    LET subps == subprograms(operator(n), env)
    IN And(And(sub_equation(left(n), env, origin, b),
               sub_equation(right(n), env, origin, b)),
           Or([k \in DOMAIN subps |-> BinOp_overload(n, subps[k], origin)]
              \o <<no_overload_equation(n)>>))

\* ObjectDecl.xref_equation
ObjectDecl_xref_equation(n, env, origin, b) ==
    IF default_expr(n) = NoNode THEN LogicTrue
    ELSE And(xref_equation(default_expr(n), env, origin, b),
             BindVal(type_var(default_expr(n)),
                     canonical_expr_type(Entity(n, MdDefault, <<>>), origin),
                     "matching_assign_type"))

\* params.logic_all(lambda pa: pa.expr.sub_equation)
sub_equations(kids, k, env, origin, b) ==
    IF k > Len(kids) THEN LogicTrue
    ELSE And(sub_equation(kids[k], env, origin, b),
             sub_equations(kids, k + 1, env, origin, b))

\* CallExpr.type_conv_xref_equation
type_conv_xref_equation(n, env, origin, b) ==
    And(And(sub_equation(params(n)[1], env, origin, b),
            sub_equation(name(n), env, origin, b)),
        And(BindEq(type_var(n), type_var(name(n)), ""),
            BindEq(ref_var(n), ref_var(name(n)), "")))

\* CallExpr.equation_for_type: the call as an array access; atd is
\* dereferenced.  No index is constrained, the arrays of the units are
\* never indexed.
equation_for_type(n, typ, env, origin, b) ==
    IF typ = NoEntity \/ array_def(typ) = NoEntity THEN PropertyError
    ELSE And(sub_equations(params(n), 1, env, origin, b),
             Bind(type_var(n), comp_type(array_def(typ), origin)))

\* match_param_list(...).logic_all(lambda pm: ...): the type of each actual
\* matches the type of its formal; the fields of an actual left without a
\* formal are null, and their dereference raises.
param_matches(n, subp, list, i, origin) ==
    IF i > Len(params(n)) THEN LogicTrue
    ELSE IF list[i] = NoMatch THEN PropertyError
    ELSE And(BindVal(type_var(params(n)[i]),
                     designated_type(node_env(subp), unpacked_formal_params(subp)[list[i]].type,
                                     origin),
                     "matching_formal_type"),
             param_matches(n, subp, list, i + 1, origin))

\* The branch of general_xref_equation for one candidate; the call is not
\* the name of another call.
CallExpr_candidate(n, e, env, origin, b) ==
    And(Bind(ref_var(name(n)), e),
        IF e.node \in SubpDecls => paramless(unpacked_formal_params(e.node), e.md)
        THEN equation_for_type(n, expr_type(e, origin), env, origin, b)
        ELSE And(Bind(type_var(n), expr_type(e, origin)),
                 param_matches(n, e.node,
                               match_param_list(unpacked_formal_params(e.node),
                                                unpacked_params(n), e.md.dottable_subp),
                               1, origin)))

\* subps = Self.env_elements, which CallExpr takes from its name.
candidates(n, env, origin) == env_elements(name(n), env, origin)

\* CallExpr.general_xref_equation
general_xref_equation(n, env, origin, b) ==
    LET subps == candidates(n, env, origin)
    IN And(And(And(sub_equation(name(n), env, origin, b),
                   sub_equations(params(n), 1, env, origin, b)),
               Or([k \in DOMAIN subps |-> CallExpr_candidate(n, subps[k], env, origin, b)])),
           BindEq(ref_var(n), ref_var(name(n)), ""))

\* CallExpr.xref_equation
CallExpr_xref_equation(n, env, origin, b) ==
    IF designated_type(env, Tree[name(n)].tok, origin) # NoEntity
    THEN type_conv_xref_equation(n, env, origin, b)
    ELSE general_xref_equation(n, env, origin, b)

\* The dispatch on the node's class; AdaNode.xref_equation is the default.
xref_equation(n, env, origin, b) ==
    CASE Tree[n].kind = "Identifier"    -> BaseId_xref_equation(n, env, origin, b)
      [] Tree[n].kind = "Aggregate"     -> Aggregate_xref_equation(n, env, origin, b)
      [] Tree[n].kind = "AssignStmt"    -> AssignStmt_xref_equation(n, env, origin, b)
      [] Tree[n].kind = "IfStmt"        -> IfStmt_xref_equation(n, env, origin, b)
      [] Tree[n].kind = "WhileLoopSpec" -> WhileLoopSpec_xref_equation(n, env, origin, b)
      [] Tree[n].kind = "WhileLoopStmt" -> BaseLoopStmt_xref_equation(n, env, origin, b)
      [] Tree[n].kind = "IntLiteral"    -> IntLiteral_xref_equation(n, env, origin, b)
      [] Tree[n].kind = "BinOp"         -> BinOp_xref_equation(n, env, origin, b)
      [] Tree[n].kind = "CallExpr"      -> CallExpr_xref_equation(n, env, origin, b)
      [] Tree[n].kind = "ObjectDecl"    -> ObjectDecl_xref_equation(n, env, origin, b)
      [] OTHER                          -> NoEquation

(***************************************************************************)
(* The solver.  solve starts from its equation's variables unbound, tries  *)
(* the candidates of each domain in order, and succeeds with the first     *)
(* assignment that satisfies every atom and binds every variable of the    *)
(* equation; when there is none it fails and leaves them unbound.          *)
(***************************************************************************)
RECURSIVE VarsOf(_)
VarsOf(atoms) ==
    UNION {IF atoms[i].op = "any"
           THEN UNION {VarsOf(atoms[i].dom[k]) : k \in DOMAIN atoms[i].dom}
           ELSE {atoms[i].a, atoms[i].b} : i \in DOMAIN atoms} \ {NoVar}

ConvProp(conv, val, origin) ==
    IF conv = "canonical_expr_type" THEN canonical_expr_type(val, origin) ELSE val

EqProp(eqp, x, y) ==
    CASE eqp = "matching_assign_type" -> matching_assign_type(x, y)
      [] eqp = "matching_formal_type" -> matching_formal_type(x, y)
      [] OTHER -> x = y

PredProp(pred, x) ==
    IF pred = "is_int_type" THEN is_int_type(x) ELSE TRUE

\* The state of a solve: whether it is still consistent, the bindings, the
\* bindings made on the way to this state (path), and every binding made
\* since the solve began, those of abandoned branches included (hist).
Consistent(b) == [ok |-> TRUE, b |-> b, path |-> <<>>, hist |-> <<>>]
Conflict(st)  == [st EXCEPT !.ok = FALSE]

Binding(st, v, val) ==
    [st EXCEPT !.b[v] = BoundTo(val),
               !.path = Append(@, <<v, val>>),
               !.hist = Append(@, <<v, val>>)]

\* One atom, applied to the bindings st.b.
Step(at, st, origin) ==
    LET b == st.b
    IN IF ~st.ok THEN st
       ELSE CASE at.op = "bind" ->
                   IF ~b[at.a].bound THEN Binding(st, at.a, at.val)
                   ELSE IF EqProp(at.conv, b[at.a].val, at.val) THEN st ELSE Conflict(st)
              [] at.op = "conv" ->
                   IF ~b[at.a].bound THEN st
                   ELSE IF ~b[at.b].bound
                        THEN Binding(st, at.b, ConvProp(at.conv, b[at.a].val, origin))
                   ELSE IF b[at.b].val = ConvProp(at.conv, b[at.a].val, origin)
                        THEN st ELSE Conflict(st)
              [] at.op = "eq" ->
                   IF b[at.a].bound /\ b[at.b].bound
                   THEN IF EqProp(at.conv, b[at.a].val, b[at.b].val) THEN st ELSE Conflict(st)
                   ELSE IF b[at.a].bound THEN Binding(st, at.b, b[at.a].val)
                   ELSE IF b[at.b].bound THEN Binding(st, at.a, b[at.b].val)
                   ELSE st
              [] at.op = "pred" ->
                   IF b[at.a].bound /\ ~PredProp(at.conv, b[at.a].val)
                   THEN Conflict(st) ELSE st
              [] at.op = "any" -> st
              [] OTHER ->
                   IF b[at.a].bound /\ b[at.a].val \notin Range(at.dom)
                   THEN Conflict(st) ELSE st

\* Below, an intermediate result that is used more than once is bound by
\* CHOOSE r \in {... : x \in {result}} : TRUE, which evaluates it once.
RECURSIVE Pass(_, _, _, _)
Pass(atoms, i, st, origin) ==
    IF i > Len(atoms) THEN st
    ELSE CHOOSE r \in {Pass(atoms, i + 1, s, origin) :
                          s \in {Step(atoms[i], st, origin)}} : TRUE

\* A propagation that passes over the atoms once.
Propagate_once(atoms, st, origin, rounds) == Pass(atoms, 1, st, origin)

RECURSIVE Propagate(_, _, _, _)
Propagate(atoms, st, origin, rounds) ==
    IF rounds = 0 \/ ~st.ok THEN st
    ELSE CHOOSE r \in {IF s = st THEN st ELSE Propagate(atoms, s, origin, rounds - 1) :
                          s \in {Pass(atoms, 1, st, origin)}} : TRUE

\* The atoms with the disjunction at i replaced by the atoms of one branch.
Splice(atoms, i, branch) ==
    SubSeq(atoms, 1, i - 1) \o branch \o SubSeq(atoms, i + 1, Len(atoms))

RECURSIVE Search(_, _, _)
RECURSIVE TryEach(_, _, _, _, _, _)
RECURSIVE TryAny(_, _, _, _, _)
RECURSIVE TryAny_keeping(_, _, _, _, _)

\* Depth-first search: propagate, then take the first choice left in the
\* order of the conjuncts, a variable with an open domain or a disjunction.
Search(atoms, st, origin) ==
    CHOOSE r \in
      {LET open == {i \in DOMAIN atoms :
                       \/ atoms[i].op = "domain" /\ ~p.b[atoms[i].a].bound
                       \/ atoms[i].op = "any"}
       IN IF ~p.ok THEN p
          ELSE IF open = {}
               THEN IF \A v \in VarsOf(atoms) : p.b[v].bound THEN p ELSE Conflict(p)
          ELSE LET i == CHOOSE j \in open : \A k \in open : j <= k
               IN IF atoms[i].op = "any"
                  THEN TryAny(atoms, p, i, 1, origin)
                  ELSE TryEach(atoms, p, atoms[i].a, atoms[i].dom, 1, origin) :
       p \in {Propagate(atoms, st, origin, Len(atoms) + 1)}} : TRUE

\* The candidates of a domain, in order; what an abandoned candidate bound
\* is undone, and only remembered in hist.
TryEach(atoms, st, v, dom, k, origin) ==
    IF k > Len(dom) THEN Conflict(st)
    ELSE CHOOSE r \in
           {IF t.ok THEN t
            ELSE TryEach(atoms, [st EXCEPT !.hist = t.hist], v, dom, k + 1, origin) :
            t \in {Search(atoms, Binding(st, v, dom[k]), origin)}} : TRUE

\* A disjunction of which only the first branch is tried.
TryAny_first_only(atoms, st, i, k, origin) ==
    IF k > 1 \/ atoms[i].dom = <<>> THEN Conflict(st)
    ELSE Search(Splice(atoms, i, atoms[i].dom[1]), st, origin)

\* A disjunction whose abandoned branches keep what they bound.
TryAny_keeping(atoms, st, i, k, origin) ==
    IF k > Len(atoms[i].dom) THEN Conflict(st)
    ELSE CHOOSE r \in
           {IF t.ok THEN t
            ELSE TryAny_keeping(atoms, [st EXCEPT !.hist = t.hist, !.path = t.path],
                                i, k + 1, origin) :
            t \in {Search(Splice(atoms, i, atoms[i].dom[k]), st, origin)}} : TRUE

\* The branches of a disjunction, in order.
TryAny(atoms, st, i, k, origin) ==
    IF k > Len(atoms[i].dom) THEN Conflict(st)
    ELSE CHOOSE r \in
           {IF t.ok THEN t
            ELSE TryAny(atoms, [st EXCEPT !.hist = t.hist], i, k + 1, origin) :
            t \in {Search(Splice(atoms, i, atoms[i].dom[k]), st, origin)}} : TRUE

\* What a call leaves: its result, the variables, and the nodes whose
\* equation it built, in order, each with the value its own type had then.
Outcome(res, b) == [res |-> res, bind |-> b, built |-> <<>>, path |-> <<>>, hist |-> <<>>]

Building(n, b, o) ==
    [o EXCEPT !.built = <<[node |-> n, type |-> type_val(b, n),
                           path |-> o.path, hist |-> o.hist]>> \o @]

solve(atoms, origin, b) ==
    CHOOSE r \in
      {CHOOSE q \in {[Outcome(IF t.ok THEN "true" ELSE "false", IF t.ok THEN t.b ELSE b0)
                        EXCEPT !.path = t.path, !.hist = t.hist] :
                       t \in {Search(atoms, Consistent(b0), origin)}} : TRUE :
       b0 \in {[v \in DOMAIN b |-> IF v \in VarsOf(atoms) THEN Unbound ELSE b[v]]}} : TRUE

(***************************************************************************)
(* The driver.                                                             *)
(***************************************************************************)
\* A solve that takes the absence of an equation for a success.
solve_or_true(eq, origin, b) ==
    IF eq.st = "error" THEN Outcome("error", b)
    ELSE IF eq.st = "null" THEN Outcome("true", b)
    ELSE solve(eq.atoms, origin, b)

\* Self.xref_equation._.solve: false when there is no equation; an error
\* raised while the equation is built ends the call.
xref_solve(eq, origin, b) ==
    CHOOSE r \in
      {IF e.st = "error" THEN Outcome("error", b)
       ELSE IF e.st = "null" THEN Outcome("false", b)
       ELSE solve(e.atoms, origin, b) :
       e \in {eq}} : TRUE

RECURSIVE resolve_names_internal(_, _, _, _, _)
RECURSIVE children_all(_, _, _, _, _)

\* AdaNode.resolve_names_internal
resolve_names_internal(n, initial, env, origin, b) ==
    CHOOSE r \in
      {IF i.res # "true" THEN i
       ELSE [children_all(children(n), 1, env, origin, i.bind)
               EXCEPT !.built = i.built \o @] :
       i \in {IF initial \/ xref_stop_resolution(n)
              THEN Building(n, b, xref_solve(xref_equation(n, env, origin, b), origin, b))
              ELSE Outcome("true", b)}} : TRUE

\* Self.children.all(lambda c: c.resolve_names_internal(False)), which stops
\* at the first child that does not resolve.
children_all(kids, k, env, origin, b) ==
    IF k > Len(kids) THEN Outcome("true", b)
    ELSE CHOOSE r \in
           {IF c.res # "true" THEN c
            ELSE [children_all(kids, k + 1, env, origin, c.bind)
                    EXCEPT !.built = c.built \o @] :
            c \in {resolve_names_internal(kids[k], FALSE, env, origin, b)}} : TRUE

\* AdaNode.resolve_names
resolve_names(n, b) == resolve_names_internal(n, TRUE, enclosing_env(n), n, b)

\* What resolved_type / resolved_reference answer for a node.
resolved_type(n)      == type_val(bindings, n)
resolved_reference(n) == ref_val(bindings, n)

ResInit ==
    /\ pos = 26
    /\ cur = RootEnv
    /\ live = {RootEnv, Ast.standard, Ast.p}
    /\ parent = [e \in 1..Ast.p |-> IF e \in {Ast.standard, Ast.p} THEN RootEnv ELSE EmptyEnv]
    /\ map = [e \in 1..Ast.p |->
                IF e = RootEnv
                THEN << <<"Standard", Entity(Ast.standard, MdDefault, <<>>)>>,
                        <<"P", Entity(Ast.p, MdDefault, <<>>)>> >>
                ELSE IF e = Ast.standard
                THEN << <<"Integer", Entity(Ast.integer, MdDefault, <<>>)>>,
                        <<"Boolean", Entity(Ast.boolean, MdDefault, <<>>)>> >>
                ELSE IF e = Ast.p
                THEN << <<"Arr", Entity(Ast.arr, MdDefault, <<>>)>>,
                        <<"X", Entity(Ast.x, MdDefault, <<>>)>>,
                        <<"B", Entity(Ast.b, MdDefault, <<>>)>>,
                        <<"R", Entity(Ast.r, MdDefault, <<>>)>> >>
                ELSE <<>>]
    /\ refs = [e \in 1..Ast.p |->
                 IF e = Ast.p THEN <<Descriptor(Ast.p, "Standard", "std", FALSE)>> ELSE <<>>]
    /\ log = <<>>
    /\ snap = <<>>
    /\ query = NoQuery
    /\ result = <<>>
    /\ handle = NoHandle
    /\ type_expr \in [{n \in ObjectDecls : UnitOf(n) = Ast.p} -> TypeNames]
    /\ bindings = Fresh
    /\ call = NoCall
    /\ units = NoUnits
    /\ post = <<>>

\* resolve_names is called on an entry point of the unit that is loaded.
ResolveNames(n) ==
    /\ xref_entry_point(n)
    /\ UnitOf(n) \in live
    /\ \E r \in {resolve_names(n, bindings)} :
          /\ bindings' = r.bind
          /\ call' = [node |-> n, res |-> r.res, built |-> r.built]
    /\ UNCHANGED <<storeVars, handle, type_expr, units, post>>

ResNext == \E n \in EntryPoints : ResolveNames(n)

SpecRes == ResInit /\ [][ResNext]_envVars

(***************************************************************************)
(* The same driver on the unit Q: the environments as the population of    *)
(* Standard and Q leaves them, the type of each object chosen among the    *)
(* scalar types of Standard.                                               *)
(***************************************************************************)
ScalarNames == {"Integer", "Boolean", "Float"}

CallInit ==
    /\ pos = 64
    /\ cur = RootEnv
    /\ live = {RootEnv, Ast.standard, Ast.q}
    /\ parent = [e \in 1..Ast.q |-> IF e \in {Ast.standard, Ast.q} THEN RootEnv ELSE EmptyEnv]
    /\ map = [e \in 1..Ast.q |->
                IF e = RootEnv
                THEN << <<"Standard", Entity(Ast.standard, MdDefault, <<>>)>>,
                        <<"Q", Entity(Ast.q, MdDefault, <<>>)>> >>
                ELSE IF e = Ast.standard
                THEN << <<"Integer", Entity(Ast.integer, MdDefault, <<>>)>>,
                        <<"Boolean", Entity(Ast.boolean, MdDefault, <<>>)>>,
                        <<"Float", Entity(Ast.float, MdDefault, <<>>)>>,
                        <<Tree[Ast.op].tok, Entity(Ast.plus_int, MdDefault, <<>>)>>,
                        <<Tree[Ast.op].tok, Entity(Ast.plus_float, MdDefault, <<>>)>> >>
                ELSE IF e = Ast.q
                THEN << <<"F", Entity(Ast.f1, MdDefault, <<>>)>>,
                        <<"F", Entity(Ast.f2, MdDefault, <<>>)>>,
                        <<"G", Entity(Ast.g1, MdDefault, <<>>)>>,
                        <<"G", Entity(Ast.g2, MdDefault, <<>>)>>,
                        <<"X", Entity(Ast.qx, MdDefault, <<>>)>>,
                        <<"B", Entity(Ast.qb, MdDefault, <<>>)>>,
                        <<"Y", Entity(Ast.y, MdDefault, <<>>)>>,
                        <<"H", Entity(Ast.h1, MdDefault, <<>>)>>,
                        <<"H", Entity(Ast.h2, MdDefault, <<>>)>> >>
                ELSE <<>>]
    /\ refs = [e \in 1..Ast.q |->
                 IF e = Ast.q THEN <<Descriptor(Ast.q, "Standard", "std", FALSE)>> ELSE <<>>]
    /\ log = <<>>
    /\ snap = <<>>
    /\ query = NoQuery
    /\ result = <<>>
    /\ handle = NoHandle
    /\ type_expr \in [{n \in ObjectDecls : UnitOf(n) = Ast.q} -> ScalarNames]
    /\ bindings = Fresh
    /\ call = NoCall
    /\ units = NoUnits
    /\ post = <<>>

SpecCall == CallInit /\ [][ResNext]_envVars

(***************************************************************************)
(* Properties of the driver.                                               *)
(***************************************************************************)
RECURSIVE Subtree(_)
Subtree(n) == {n} \cup UNION {Subtree(children(n)[k]) : k \in DOMAIN children(n)}

ParentOf(n) == CHOOSE q \in DOMAIN Tree : n \in Range(children(q))

\* The nearest enclosing entry point of a node below the body of P.
RECURSIVE EnclosingEntryPoint(_)
EnclosingEntryPoint(n) ==
    IF xref_entry_point(ParentOf(n)) THEN ParentOf(n)
    ELSE EnclosingEntryPoint(ParentOf(n))

\* The expressions an entry point resolves: those it is the nearest
\* enclosing entry point of.
OwnExprs(n) == {x \in Subtree(n) \cap Exprs : EnclosingEntryPoint(x) = n}

Resolved(x) ==
    /\ resolved_type(x) # NoEntity
    /\ x \in Names => resolved_reference(x) # NoEntity

\* C8: no logic-variable state is shared across calls: what
\* resolve_names(B) returns is what it returns as the first call, with every
\* variable fresh, whatever calls came before, and calling it again returns
\* the same.
C8_NoSharedState ==
    call.node # NoNode =>
       /\ call.res = resolve_names(call.node, Fresh).res
       /\ resolve_names(call.node, bindings).res = call.res

C10_UnresolvedOnFailure ==
    call.res = "false" =>
       \A x \in Subtree(call.node) :
          resolved_type(x) = NoEntity /\ resolved_reference(x) = NoEntity

\* The nodes whose equation the last call built.
BuiltNodes == {call.built[i].node : i \in DOMAIN call.built}

\* C11 as stated: during resolve_names(n) the only equation built and solved
\* is the one of n.
C11_OnlyOwnEquation ==
    \A i \in DOMAIN call.built : call.built[i].node = call.node

\* C11, amended: during resolve_names(n) on an assignment, if or while
\* statement the equation of n is built first; every other equation built is
\* the one of an aggregate below n, each built once and solved on its own;
\* and when the call returns true every aggregate below n was solved so.
C11_OwnThenAggregates ==
    call.node # NoNode =>
       /\ call.built[1].node = call.node
       /\ \A i \in 2..Len(call.built) :
             /\ Tree[call.built[i].node].kind = "Aggregate"
             /\ call.built[i].node \in Subtree(call.node)
       /\ \A i, j \in DOMAIN call.built :
             call.built[i].node = call.built[j].node => i = j
       /\ call.res = "true" =>
             \A x \in Subtree(call.node) :
                Tree[x].kind = "Aggregate" => x \in BuiltNodes

\* The if statement resolved: its own equation and the one of the aggregate
\* of the assignment nested in it were built.
C11_Witness ==
    /\ call.node = Ast.s2 /\ call.res = "true"
    /\ BuiltNodes = {Ast.s2, Ast.agg}

\* C12: whenever the equation of an aggregate is built, the aggregate's own
\* type variable is bound already, at any depth below the entry point.
C12_AggregateTypeFirst ==
    \A i \in DOMAIN call.built :
       Tree[call.built[i].node].kind = "Aggregate" => call.built[i].type # NoEntity

\* C28: resolve_names on an entry point whose kind defines no equation, the
\* case statement, raises nothing, returns false and binds no variable.
C28_NoEquationReturnsFalse ==
    [][Tree[call'.node].kind = "CaseStmt" =>
          call'.res = "false" /\ bindings' = bindings]_envVars

\* The case statement did not resolve after the first assignment did, and
\* what the assignment bound is still bound.
C28_Witness ==
    /\ call.node = Ast.s6 /\ call.res = "false"
    /\ Resolved(dest(Ast.s1))
    /\ \A x \in Subtree(Ast.s6) \cap Exprs : ~Resolved(x)

(***************************************************************************)
(* Overloads.  The entry points of Q whose equation holds a disjunction    *)
(* over the declarations a name can denote: the calls in the assignments   *)
(* and the operator in the initialized object declaration.                 *)
(***************************************************************************)
Overloaded ==
    {n \in EntryPoints :
        /\ UnitOf(n) = Ast.q
        /\ Tree[n].kind = "ObjectDecl" => default_expr(n) # NoNode
        /\ Tree[n].kind = "AssignStmt" => Tree[expr(n)].kind = "CallExpr"}

\* The variable the disjunction of n binds to a candidate, and the candidates.
OverloadVar(n) ==
    IF Tree[n].kind = "ObjectDecl" THEN ref_var(operator(default_expr(n)))
    ELSE ref_var(expr(n))

OverloadCands(n) ==
    IF Tree[n].kind = "ObjectDecl"
    THEN subprograms(operator(default_expr(n)), enclosing_env(n))
    ELSE candidates(expr(n), enclosing_env(n), n)

\* The equation resolve_names builds for the entry point n.
entry_equation(n) == xref_equation(n, enclosing_env(n), n, bindings)

\* The solve of the equation of n with the candidate e imposed.
With(n, e) ==
    solve(entry_equation(n).atoms \o Bind(OverloadVar(n), e).atoms, n, bindings)

\* The candidates that lead to a solution of the whole equation.
ConsistentCands(n) == {e \in Range(OverloadCands(n)) : With(n, e).res = "true"}

\* The atoms with every disjunction reduced to its k-th branch, and the
\* branches that alone lead to a solution of the whole equation.
OnlyBranch(atoms, k) ==
    [i \in DOMAIN atoms |->
       IF atoms[i].op = "any"
       THEN [atoms[i] EXCEPT !.dom = IF k \in DOMAIN @ THEN <<@[k]>> ELSE <<>>]
       ELSE atoms[i]]

BranchCount(atoms) ==
    IF \E i \in DOMAIN atoms : atoms[i].op = "any"
    THEN Len(atoms[CHOOSE i \in DOMAIN atoms : atoms[i].op = "any"].dom)
    ELSE 0

ConsistentBranches(n) ==
    UNION {{k \in 1..BranchCount(atoms) :
              solve(OnlyBranch(atoms, k), n, bindings).res = "true"} :
           atoms \in {entry_equation(n).atoms}}

\* C13: when several candidates of an overloaded name each lead to a
\* solution of the whole equation, resolve_names returns true and the
\* variables of the equation hold the solution of the candidate declared
\* first.
C13_FirstConsistentBranch ==
    call.node \in Overloaded =>
       \A S \in {ConsistentCands(call.node)} :
          S # {} =>
             /\ call.res = "true"
             /\ \E e \in S :
                   /\ \A e2 \in S : e.node <= e2.node
                   /\ get_value(bindings, OverloadVar(call.node)) = e
                   /\ With(call.node, e).bind = bindings

\* X := G (1) resolved: both declarations of G lead to a solution, and the
\* call denotes the first.
C13_Witness ==
    /\ call.node = Ast.c3 /\ call.res = "true"
    /\ resolved_reference(expr(Ast.c3)).node = Ast.g1
    /\ Cardinality(ConsistentCands(Ast.c3)) = 2

Solves == {call.built[i] : i \in DOMAIN call.built}

NoTwoValues(events) ==
    \A j, k \in DOMAIN events :
       events[j][1] = events[k][1] => events[j][2] = events[k][2]

Reverse(atoms) == [i \in DOMAIN atoms |-> atoms[Len(atoms) + 1 - i]]

Orders(atoms) ==
    {SubSeq(atoms, k + 1, Len(atoms)) \o SubSeq(atoms, 1, k) : k \in 0..Len(atoms)}
       \cup {Reverse(atoms)}

\* The choices of an equation and, for each, the alternatives that lead to a
\* solution; an equation with at most one such alternative for every choice
\* has at most one solution.
Viable(atoms, i, n) ==
    {k \in DOMAIN atoms[i].dom :
        solve([atoms EXCEPT ![i].dom = <<@[k]>>], n, bindings).res = "true"}

Unambiguous(atoms, n) ==
    \A i \in DOMAIN atoms :
       atoms[i].op \in {"domain", "any"} => Cardinality(Viable(atoms, i, n)) <= 1

OperatorBranch(n, k) ==
    LET atoms == BinOp_xref_equation(n, enclosing_env(n), n, bindings).atoms
    IN atoms[Len(atoms)].dom[k]

Binds(branch, v, val) ==
    \E i \in DOMAIN branch :
       branch[i].op = "bind" /\ branch[i].a = v /\ branch[i].val = val

\* C17: resolve_names on Y : Integer := 1 + 2 returns true, the type of the
\* sum is Integer and the operator denotes the "+" of Integer; and the
\* branch of each visible "+" binds the types of the operands to the types
\* of its two formals, the type of the sum to the type it returns and the
\* operator to the subprogram.
C17_IntegerSum ==
    /\ call.node = Ast.y /\ type_expr[Ast.y] = "Integer" =>
          /\ call.res = "true"
          /\ resolved_type(Ast.sum) = std_entity("Integer")
          /\ resolved_reference(Ast.op) = Entity(Ast.plus_int, MdDefault, <<>>)
    /\ call.node = Ast.y =>
          \A subps \in {subprograms(Ast.op, enclosing_env(Ast.y))} :
             \A k \in DOMAIN subps :
                \A branch \in {OperatorBranch(Ast.sum, k)} :
                   /\ Binds(branch, type_var(left(Ast.sum)),
                            std_entity(unpacked_formal_params(subps[k].node)[1].type))
                   /\ Binds(branch, type_var(right(Ast.sum)),
                            std_entity(unpacked_formal_params(subps[k].node)[2].type))
                   /\ Binds(branch, type_var(Ast.sum),
                            std_entity(subp_spec(subps[k].node).returns))
                   /\ Binds(branch, ref_var(Ast.op), subps[k])

\* Y : Integer := 1 + 2 resolved with both "+" of Standard visible.
C17_Witness ==
    /\ call.node = Ast.y /\ type_expr[Ast.y] = "Integer" /\ call.res = "true"
    /\ Len(subprograms(Ast.op, enclosing_env(Ast.y))) = 2
    /\ resolved_reference(Ast.op).node = Ast.plus_int

\* C20: X := F (1), with F declared on Integer and on Float, resolves and the
\* call denotes the F of Integer; X := F (B) with B of a type that is the
\* formal type of neither does not resolve.
C20_IntegerOverload ==
    /\ call.node = Ast.c1 /\ type_expr[Ast.qx] = "Integer" =>
          /\ call.res = "true"
          /\ resolved_reference(expr(Ast.c1)) = Entity(Ast.f1, MdDefault, <<>>)
    /\ call.node = Ast.c2 /\ type_expr[Ast.qb] = "Boolean" => call.res = "false"

\* X := F (1) resolved: the call denotes the F of Integer and the literal is
\* an Integer.
C20_Witness ==
    /\ call.node = Ast.c1 /\ call.res = "true"
    /\ resolved_reference(expr(Ast.c1)).node = Ast.f1
    /\ resolved_type(params(expr(Ast.c1))[1]) = std_entity("Integer")

(***************************************************************************)
(* Matching the actuals of a call against the formals of a subprogram      *)
(* (SpecMatch).  A formal is its name and whether it is mandatory          *)
(* (ParamSpec.is_mandatory: it has no default); an actual is its           *)
(* designator, "" when it is positional.                                   *)
(***************************************************************************)
MaxFormals == 2
MaxActuals == 2

FormalNames == {"a", "b", "c"}

SeqsUpTo(S, n) == UNION {[1..k -> S] : k \in 0..n}

\* The formal parts a subprogram can have: the names are distinct.
FormalParts ==
    {fs \in SeqsUpTo([name : FormalNames, mandatory : BOOLEAN], MaxFormals) :
        \A i, j \in DOMAIN fs : fs[i].name = fs[j].name => i = j}

\* The actual parts a call can have: designators may name no formal.
ActualParts == SeqsUpTo(FormalNames \cup {"", "z"}, MaxActuals)


\* A call is matched against a subprogram.
MatchParams(formals, actuals, is_dottable_subp) ==
    /\ query = NoQuery
    /\ query' = [op |-> "match", formals |-> formals, actuals |-> actuals,
                 dottable |-> is_dottable_subp]
    /\ result' = [list |-> match_param_list(formals, actuals, is_dottable_subp),
                  ok |-> is_matching_param_list(formals, actuals, is_dottable_subp)]
    /\ UNCHANGED <<pos, cur, live, parent, map, refs, log, snap, envIdle>>

MatchNext ==
    \E formals \in FormalParts, actuals \in ActualParts, d \in BOOLEAN :
       MatchParams(formals, actuals, d)

SpecMatch == EnvInit /\ [][MatchNext]_envVars

\* The formals an actual part leaves without an actual.
Unmatched(formals, list) == {k \in DOMAIN formals : \A i \in DOMAIN list : list[i] # k}

\* The formal an actual is to be matched to: a positional actual the formal
\* at its position (counting after the first formal when the prefix of a
\* dotted call supplies that one), a named actual the formal of that name.
Expected(formals, actuals, i, skip) ==
    IF actuals[i] = ""
    THEN IF i + skip \in DOMAIN formals THEN i + skip ELSE NoMatch
    ELSE IF \E k \in DOMAIN formals : formals[k].name = actuals[i]
         THEN CHOOSE k \in DOMAIN formals : formals[k].name = actuals[i]
         ELSE NoMatch

\* C18: a subprogram is kept as a candidate exactly when the number of
\* actuals lies between the number of mandatory formals and the number of
\* formals, every actual matches one formal, and the formals left without an
\* actual are all optional.
C18_MatchingParamList ==
    (query.op = "match" /\ ~query.dottable) =>
       (result.ok <=>
          /\ Len(query.actuals) >= nb_min_params(query.formals)
          /\ Len(query.actuals) <= nb_max_params(query.formals)
          /\ \A i \in DOMAIN query.actuals :
                /\ result.list[i] # NoMatch
                /\ result.list[i] = Expected(query.formals, query.actuals, i, 0)
          /\ \A k \in Unmatched(query.formals, result.list) :
                ~query.formals[k].mandatory)

\* C19: for a candidate reached through dot notation the positional actual
\* at index i is matched to the formal at index i+1, no explicit actual is
\* matched to the first formal, and the number of explicit actuals accepted
\* lies between the number of mandatory formals other than the first and the
\* number of formals minus one, whether the first formal has a default or
\* not.
C19_DottedCall ==
    (query.op = "match" /\ query.dottable /\ query.formals # <<>>) =>
       /\ \A i \in DOMAIN query.actuals :
             /\ query.actuals[i] = "" =>
                   result.list[i] = Expected(query.formals, query.actuals, i, 1)
             /\ result.list[i] # 1
       /\ result.ok <=>
             /\ Len(query.actuals) >=
                   Cardinality({k \in DOMAIN query.formals :
                                   k # 1 /\ query.formals[k].mandatory})
             /\ Len(query.actuals) <= Len(query.formals) - 1
             /\ \A i \in DOMAIN query.actuals : result.list[i] \notin {NoMatch, 1}
             /\ \A k \in Unmatched(query.formals, result.list) :
                   k = 1 \/ ~query.formals[k].mandatory

\* The actuals matched to the formal k.
ActualsOf(list, k) == {i \in DOMAIN list : list[i] = k}

\* C29: in every parameter list is_matching_param_list accepts, each formal
\* is matched by at most one actual and each mandatory formal by exactly
\* one.
C29_OneActualPerFormal ==
    (query.op = "match" /\ ~query.dottable /\ result.ok) =>
       \A k \in DOMAIN query.formals :
          /\ Cardinality(ActualsOf(result.list, k)) <= 1
          /\ query.formals[k].mandatory =>
                Cardinality(ActualsOf(result.list, k)) = 1

(***************************************************************************)
(* Matching the signatures of two subprogram specifications (SpecSig).  A  *)
(* specification is its name, the type expression it returns ("" for a     *)
(* procedure) and its formals, each a name and a type expression; the      *)
(* type expressions are names looked up from Q, and "Nowhere" is declared  *)
(* nowhere.                                                                *)
(***************************************************************************)
MaxSigFormals == 1

NoTypeExpr == ""

TypeExprs == {"Integer", "Nowhere"}

SubpSpecs ==
    [name    : {"F", "G"},
     returns : TypeExprs \cup {NoTypeExpr},
     params  : SeqsUpTo([name : {"A", "B"}, type : TypeExprs], MaxSigFormals)]

\* canonical_type_or_null: null for a null type expression; the type
\* expression's designated type is dereferenced, which raises when the
\* name designates no type.
canonical_type_or_null(te, origin) ==
    IF te = NoTypeExpr THEN [st |-> "ok", val |-> NoEntity]
    ELSE IF designated_type(enclosing_env(origin), te, origin) = NoEntity
    THEN [st |-> "error", val |-> NoEntity]
    ELSE [st |-> "ok",
          val |-> canonical_type(designated_type(enclosing_env(origin), te, origin))]

\* The comparison of two canonical types: "error" when either raises.
same_canonical_type(te1, te2, origin) ==
    IF canonical_type_or_null(te1, origin).st = "error" THEN "error"
    ELSE IF canonical_type_or_null(te2, origin).st = "error" THEN "error"
    ELSE IF canonical_type_or_null(te1, origin).val = canonical_type_or_null(te2, origin).val
    THEN "true" ELSE "false"

\* self_params.all(lambda i, p: ...): the names match and the canonical
\* types are the same, from the first formal on; stops at the first that
\* is not true.
RECURSIVE params_match(_, _, _, _)
params_match(self_params, other_params, i, origin) ==
    IF i > Len(self_params) THEN "true"
    ELSE IF self_params[i].name # other_params[i].name THEN "false"
    ELSE IF same_canonical_type(self_params[i].type, other_params[i].type, origin) # "true"
    THEN same_canonical_type(self_params[i].type, other_params[i].type, origin)
    ELSE params_match(self_params, other_params, i + 1, origin)

\* BaseSubpSpec.match_signature; And evaluates its operands in order and
\* stops at the first that is false.
match_signature(self, other, origin) ==
    IF self.name # other.name THEN "false"
    ELSE IF other.returns = NoTypeExpr /\ self.returns # NoTypeExpr THEN "false"
    ELSE IF other.returns # NoTypeExpr
            /\ same_canonical_type(other.returns, self.returns, origin) # "true"
    THEN same_canonical_type(other.returns, self.returns, origin)
    ELSE IF Len(self.params) # Len(other.params) THEN "false"
    ELSE params_match(self.params, other.params, 1, origin)

\* The unit Q populated, its objects Integers.
SigInit ==
    /\ CallInit
    /\ \A n \in DOMAIN type_expr : type_expr[n] = "Integer"

\* self.match_signature(other) is asked, from the first call of Q.
MatchSignature(self, other) ==
    /\ query = NoQuery
    /\ query' = [op |-> "sig", self |-> self, other |-> other]
    /\ result' = match_signature(self, other, Ast.c1)
    /\ UNCHANGED <<pos, cur, live, parent, map, refs, log, snap, envIdle>>

SigNext == \E self, other \in SubpSpecs : MatchSignature(self, other)

SpecSig == SigInit /\ [][SigNext]_envVars

\* C30: a.match_signature(b) = b.match_signature(a), and it is false when
\* exactly one of a and b has a return type, a return type that designates
\* no type included.
C30_SymmetricSignature ==
    query.op = "sig" =>
       /\ result = match_signature(query.other, query.self, Ast.c1)
       /\ (query.self.returns = NoTypeExpr) # (query.other.returns = NoTypeExpr) =>
             result = "false"

(***************************************************************************)
(* Units and with clauses (SpecWith).  The units are                       *)
(*                                                                         *)
(*    function L return Integer;                  -- l                     *)
(*    [with L;] package A is ... end A;           -- a                     *)
(*    [with L;] package A.B is ... end A.B;       -- ab                    *)
(*    [with L;] procedure A.B.C;                  -- c_spec                *)
(*    [with L;] [with M;]                                                  *)
(*    procedure A.B.C is                          -- c_body                *)
(*       X : Integer;                                                      *)
(*       function K return Integer;               -- k                     *)
(*    begin                                                                *)
(*       X := L;                                  -- sl                    *)
(*       X := K;                                  -- sk                    *)
(*       X := M;                                  -- sm                    *)
(*       X := X in Integer;                       -- si                    *)
(*    end;                                                                 *)
(*                                                                         *)
(* No unit M can be loaded.  A, A.B and A.B.C are populated in this order, *)
(* the parent and the specification before the unit that needs them; L is  *)
(* populated when the first with clause that names it is visited, unless   *)
(* a unit outside the family had it loaded before.                         *)
(***************************************************************************)
WithClauses == {n \in DOMAIN Tree : Tree[n].kind = "WithClause"}

Family == <<Ast.a, Ast.ab, Ast.c_spec, Ast.c_body>>

PastUnits == Ast.si + 5

\* load(name, kind) of the unit loader: the library item of the unit, NoNode
\* for a unit that cannot be loaded.
load(nm) == IF nm = "L" THEN Ast.l ELSE NoNode

\* A hook that raises when the unit cannot be loaded.
env_hook_raising(c) == [ok |-> load(Tree[c].tok) # NoNode, unit |-> load(Tree[c].tok)]

\* The env hook on a with clause: it asks the loader for the unit; a unit
\* that cannot be loaded is replaced by nothing at all.
env_hook(c) == [ok |-> TRUE, unit |-> load(Tree[c].tok)]

\* An add_to_env action: the environment, the key, the entity and whether
\* the env_spec marks it is_post.
Action(e, k, n, md, is_post) ==
    [env |-> e, key |-> k, val |-> Entity(n, md, <<>>), is_post |-> is_post]

Assoc(e, k, n) == Action(e, k, n, MdDefault, FALSE)

\* The scope the env_spec of a library item starts in: the scope of the
\* prefix of its name, the root environment for a simple name.
initial_env(u) ==
    CASE u = Ast.ab -> Ast.a
      [] u \in {Ast.c_spec, Ast.c_body} -> Ast.ab
      [] OTHER -> RootEnv

\* The specification of subprogram n as match_signature compares it.
SpecOf(n) ==
    [name    |-> Tree[n].tok,
     returns |-> subp_spec(n).returns,
     params  |-> [i \in DOMAIN subp_spec(n).params |->
                    [name |-> subp_spec(n).params[i].name,
                     type |-> subp_spec(n).params[i].type]]]

\* SubpBody.decl_part: for a library item get_library_item(Self.spec_unit);
\* else the first entity that Self.parent.node_env.get(Self.relative_name),
\* a recursive lookup, returns and that is a subprogram declaration whose
\* signature matches.  The types of the formals of the units all resolve,
\* so that match_signature raises for none of them.
decl_part(b) ==
    IF is_library_item(b) THEN spec_unit(b)
    ELSE LET found == SelectSeq(Get(node_env(b), Tree[b].tok, TRUE),
                         LAMBDA e : /\ Tree[e.node].kind = "SubpDecl"
                                    /\ match_signature(SpecOf(e.node), SpecOf(b), b) = "true")
         IN IF found = <<>> THEN NoNode ELSE found[1].node

\* BasicDecl.body_part_entity and BasicSubpDecl.body_part: the first entity
\* a non-recursive lookup of '__body' in the declaration's own environment
\* returns, cast to SubpBody.
body_part(d) ==
    LET found == Get(children_env(d), "__body", FALSE)
    IN IF found # <<>> /\ Tree[found[1].node].kind = "SubpBody"
       THEN found[1].node ELSE NoNode

\* The add_to_env actions of the env_specs of unit u in the order they are
\* executed: the library item in its scope, the declarations of its
\* declarative part as they are visited, then the post action of
\* SubpBody, '__body' in the environment of decl_part when there is one.
env_spec(u) ==
    <<Assoc(initial_env(u), Tree[u].tok, u)>>
    \o (IF u = Ast.c_body
        THEN <<Assoc(u, "X", Ast.cx), Assoc(u, "K", Ast.k)>>
             \o (IF decl_part(u) # NoNode
                 THEN <<Action(decl_part(u), "__body", u, MdDefault, TRUE)>> ELSE <<>>)
        ELSE <<>>)

\* The environments add_env creates while unit u is populated, with their
\* parents.
Scopes(u) == IF u = Ast.c_body THEN {u, Ast.k} ELSE {u}

scope_parent(n) == IF n = Ast.k THEN Ast.c_body ELSE initial_env(n)

RECURSIVE AddAll(_, _)
AddAll(m, adds) ==
    IF adds = <<>> THEN m
    ELSE AddAll([m EXCEPT ![Head(adds).env] =
                    IF <<Head(adds).key, Head(adds).val>> \in Range(@) THEN @
                    ELSE Append(@, <<Head(adds).key, Head(adds).val>>)],
                Tail(adds))

WithInit ==
    /\ pos = Ast.a
    /\ cur = RootEnv
    /\ \E loaded \in SUBSET {Ast.l} :
          /\ live = {RootEnv, Ast.standard} \cup loaded
          /\ map = [e \in 1..PastUnits |->
                      IF e = RootEnv
                      THEN << <<"Standard", Entity(Ast.standard, MdDefault, <<>>)>> >>
                           \o [i \in 1..Cardinality(loaded) |->
                                 <<"L", Entity(Ast.l, MdDefault, <<>>)>>]
                      ELSE IF e = Ast.standard
                      THEN << <<"Integer", Entity(Ast.integer, MdDefault, <<>>)>>,
                              <<"Boolean", Entity(Ast.boolean, MdDefault, <<>>)>> >>
                      ELSE <<>>]
          /\ refs = [e \in 1..PastUnits |->
                       IF e \in loaded
                       THEN <<Descriptor(e, "Standard", "std", FALSE)>> ELSE <<>>]
    /\ parent = [e \in 1..PastUnits |-> IF e \in {Ast.standard, Ast.l} THEN RootEnv ELSE EmptyEnv]
    /\ log = <<>>
    /\ snap = <<>>
    /\ query = NoQuery
    /\ result = <<>>
    /\ handle = NoHandle
    /\ type_expr = [n \in {Ast.cx} |-> "Integer"]
    /\ bindings = Fresh
    /\ call = NoCall
    /\ \E w \in SUBSET WithClauses : units = [written |-> w, referenced |-> {}]
    /\ post = <<>>

\* The population of unit u: the hook of each of its with clauses, then the
\* env_specs of its library item and of the declarations in it.  The
\* pass of a unit whose hook raised is abandoned.
PopulateUnit(u) ==
    /\ pos = u
    /\ pos' = IF u = Ast.c_body THEN PastUnits
              ELSE Family[1 + CHOOSE i \in DOMAIN Family : Family[i] = u]
    /\ \E hooks \in {{env_hook(c) : c \in {w \in units.written : UnitOf(w) = u}}} :
       \E found \in {{h.unit : h \in hooks} \ {NoNode}} :
       \E fresh \in {found \ live} :
       \E adds \in {[i \in 1..Cardinality(fresh) |-> Assoc(RootEnv, "L", Ast.l)]
                     \o env_spec(u)} :
          IF \E h \in hooks : ~h.ok
          THEN UNCHANGED <<live, parent, map, refs, log, units>>
          ELSE /\ live' = live \cup fresh \cup Scopes(u)
               /\ parent' = [e \in DOMAIN parent |->
                               IF e \in Scopes(u) THEN scope_parent(e) ELSE parent[e]]
               /\ map' = AddAll(map, adds)
               /\ refs' = [e \in DOMAIN refs |->
                             IF e \in fresh \cup {u}
                             THEN <<Descriptor(e, "Standard", "std", FALSE)>>
                             ELSE refs[e]]
               /\ log' = log \o adds
               /\ units' = [units EXCEPT !.referenced = @ \cup {<<u, t>> : t \in found}]
    /\ UNCHANGED <<cur, snap, query, result, handle, bindings, type_expr, call, post>>

WithNext ==
    \/ \E u \in Range(Family) : PopulateUnit(u)
    \/ ResNext

SpecWith == WithInit /\ [][WithNext]_envVars

\* The units a with clause gives the names of unit u visibility from, as the
\* documentation of has_with_visibility has it: u, its specification, and
\* the specifications of its parents.
VisibilityFrom(u) ==
    CASE u = Ast.c_body -> {Ast.c_body, Ast.c_spec, Ast.ab, Ast.a}
      [] u = Ast.c_spec -> {Ast.c_spec, Ast.ab, Ast.a}
      [] u = Ast.ab -> {Ast.ab, Ast.a}
      [] OTHER -> {u}

\* A with clause for unit refd is written in one of these units.
WithClauseFor(froms, refd) ==
    \E c \in units.written : load(Tree[c].tok) = refd /\ UnitOf(c) \in froms

\* The names of the statements of A.B.C: their right-hand sides.
BodyNames == {expr(Ast.sl), expr(Ast.sk), expr(Ast.sm)}

\* C21: a with clause that names a unit no loader finds does not abort the
\* population (the declarations of the unit written with it are all
\* registered), lookups of the missing unit's name find no entity, and the
\* entry points that do not name it resolve as they do without the clause:
\* X := K resolves to K, X := L resolves exactly when a with clause gives
\* A.B.C visibility on L.
C21_MissingUnitIgnored ==
    /\ pos = PastUnits =>
          /\ Ast.c_body \in live
          /\ Get(Ast.c_body, "X", FALSE) # <<>>
          /\ Get(Ast.c_body, "K", FALSE) # <<>>
          /\ Get(Ast.c_body, "M", TRUE) = <<>>
    /\ call.node = Ast.sk =>
          call.res = "true" /\ resolved_reference(expr(Ast.sk)).node = Ast.k
    /\ call.node = Ast.sl =>
          (call.res = "true") = WithClauseFor({Ast.c_body, Ast.c_spec}, Ast.l)

C21_Witness ==
    /\ Ast.with_m \in units.written
    /\ pos = PastUnits
    /\ call.node = Ast.sk /\ call.res = "true"
    /\ resolved_reference(expr(Ast.sk)).node = Ast.k

PopNodes == DOMAIN MTree

PastNodes == Ast.w + 1

\* The environment the env_spec of node n starts in: the root for the
\* library item, else the environment of the enclosing scope.
pop_initial_env(n) == IF n = Ast.main THEN RootEnv ELSE ParentOf(n)

\* BasicDecl.declarative_scope: the nearest enclosing declarative part; the
\* public and the private part of a package are two.
NoScope == [of |-> NoNode, part |-> "none"]

declarative_scope(n) ==
    IF n = Ast.main THEN NoScope
    ELSE CASE Tree[ParentOf(n)].kind = "PrivatePart" ->
                [of |-> ParentOf(ParentOf(n)), part |-> "private"]
           [] Tree[ParentOf(n)].kind = "PackageDecl" ->
                [of |-> ParentOf(n), part |-> "public"]
           [] OTHER -> [of |-> ParentOf(n), part |-> "decls"]

\* bd.declarative_scope.parent.cast(PackageDecl).then(lambda pd: pd.public_part)
public_part_of(scope) ==
    IF scope.part \in {"public", "private"}
    THEN [of |-> scope.of, part |-> "public"] ELSE NoScope

\* A type declaration test that takes every type for tagged.
any_type_tagged(ent) == TRUE

\* TypeDecl.is_tagged_type
is_tagged_type(ent) == ent.node \in {Ast.t, Ast.u}

\* BaseSubpSpec.potential_dottable_type: the element type of the type
\* expression of the first formal, looked up from the subprogram's own
\* environment; no formal is an anonymous access.
potential_dottable_type(n) ==
    IF subp_spec(n).params = <<>> THEN NoEntity
    ELSE designated_type(children_env(n), subp_spec(n).params[1].type, n)

\* BaseSubpSpec.dottable_subp
dottable_subp(n) ==
    IF /\ nb_max_params(subp_spec(n).params) > 0
       /\ potential_dottable_type(n) # NoEntity
       /\ is_tagged_type(potential_dottable_type(n))
       /\ \/ declarative_scope(potential_dottable_type(n).node) = declarative_scope(n)
          \/ declarative_scope(potential_dottable_type(n).node)
               = public_part_of(declarative_scope(n))
    THEN <<n>> ELSE <<>>

\* The add_to_env actions of the env_spec of node n that are not is_post.
add_to_env(n) == <<Assoc(pop_initial_env(n), Tree[n].tok, n)>>

\* The is_post actions of the env_spec of node n, evaluated when they are
\* executed: BasicSubpDecl adds the subprogram, marked dottable, to the
\* environment of the type of its first formal; SubpBody adds '__body' to
\* the environment of its decl_part.
post_add_to_env(n) ==
    CASE Tree[n].kind = "SubpDecl" ->
           [i \in DOMAIN dottable_subp(n) |->
              Action(children_env(potential_dottable_type(n).node), Tree[n].tok,
                     dottable_subp(n)[i], Metadata(TRUE, FALSE), TRUE)]
      [] Tree[n].kind = "SubpBody" ->
           IF decl_part(n) # NoNode
           THEN <<Action(children_env(decl_part(n)), "__body", n, MdDefault, TRUE)>>
           ELSE <<>>
      [] OTHER -> <<>>

has_post(n) == Tree[n].kind \in {"SubpDecl", "SubpBody"}

\* A deferred pass that does not wait for the structural pass.
over_at_any_node(p) == TRUE

\* The structural pass is over when it has visited the last node.
structural_pass_over(p) == p = PastNodes

PopInit ==
    /\ pos = Ast.main
    /\ cur = RootEnv
    /\ live = {RootEnv, Ast.standard}
    /\ parent = [e \in 1..Ast.w |-> IF e = Ast.standard THEN RootEnv ELSE EmptyEnv]
    /\ map = [e \in 1..Ast.w |->
                IF e = RootEnv
                THEN << <<"Standard", Entity(Ast.standard, MdDefault, <<>>)>> >>
                ELSE IF e = Ast.standard
                THEN << <<"Integer", Entity(Ast.integer, MdDefault, <<>>)>>,
                        <<"Boolean", Entity(Ast.boolean, MdDefault, <<>>)>> >>
                ELSE <<>>]
    /\ refs = [e \in 1..Ast.w |-> <<>>]
    /\ log = <<>>
    /\ snap = <<>>
    /\ query = NoQuery
    /\ result = <<>>
    /\ handle = NoHandle
    /\ \E f \in [{Ast.d1} -> {"", "T", "N"}],
          h \in [{Ast.d2, Ast.b2, Ast.b1} -> {"T", "N"}],
          k \in [{Ast.v, Ast.w} -> {"U", "N"}] : type_expr = f @@ h @@ k
    /\ bindings = <<>>
    /\ call = NoCall
    /\ units = NoUnits
    /\ post = <<>>

\* The structural pass visits node n: its env_spec adds the node to the
\* environment it starts in, creates the node's own environment, references
\* Standard from a library item, and its is_post actions are recorded.
Visit(n) ==
    /\ pos = n
    /\ pos' = n + 1
    /\ live' = live \cup {n}
    /\ parent' = [parent EXCEPT ![n] = pop_initial_env(n)]
    /\ refs' = [refs EXCEPT ![n] =
                  IF is_library_item(n)
                  THEN <<Descriptor(n, "Standard", "std", FALSE)>> ELSE <<>>]
    /\ map' = AddAll(map, add_to_env(n))
    /\ log' = log \o add_to_env(n)
    /\ post' = IF has_post(n) THEN Append(post, n) ELSE post
    /\ UNCHANGED <<cur, snap, query, result, handle, bindings, type_expr, call, units>>

\* The deferred pass executes the recorded post action that is first.
Deferred ==
    /\ structural_pass_over(pos)
    /\ post # <<>>
    /\ post' = Tail(post)
    /\ \E now \in {post_add_to_env(Head(post))} :
          /\ map' = AddAll(map, now)
          /\ log' = log \o now
    /\ UNCHANGED <<pos, cur, live, parent, refs, snap, query, result, handle,
                   bindings, type_expr, call, units>>

\* The navigation properties, asked when the unit is populated.
Navigate(n) ==
    /\ pos = PastNodes /\ post = <<>>
    /\ query = NoQuery
    /\ query' = [op |-> IF Tree[n].kind = "SubpBody" THEN "decl_part" ELSE "body_part",
                 node |-> n]
    /\ result' = IF Tree[n].kind = "SubpBody" THEN decl_part(n) ELSE body_part(n)
    /\ UNCHANGED <<pos, cur, live, parent, map, refs, log, snap, envIdle>>

PopNext ==
    \/ \E n \in PopNodes : Visit(n)
    \/ Deferred
    \/ \E n \in {Ast.d1, Ast.d2, Ast.b1, Ast.b2} : Navigate(n)

SpecPop == PopInit /\ [][PopNext]_envVars

DeclaredWith == {<<Ast.d1, Ast.t>>, <<Ast.d1, Ast.nt>>, <<Ast.v, Ast.u>>, <<Ast.w, Ast.u>>}

BodyOf(d) ==
    CASE d = Ast.d1 /\ type_expr[Ast.d1] = type_expr[Ast.b1] -> Ast.b1
      [] d = Ast.d2 /\ type_expr[Ast.d2] = type_expr[Ast.b2] -> Ast.b2
      [] OTHER -> NoNode

\* C27: once the unit is populated, d.body_part is the body b of d and
\* b.decl_part is d for every declaration d with a body b, and the
\* body_part of a declaration without a body is no body at all.
C27_BodyDeclRoundTrip ==
    /\ query.op = "body_part" => result = BodyOf(query.node)
    /\ query.op = "decl_part" =>
          \A d \in {Ast.d1, Ast.d2} : BodyOf(d) = query.node => result = d

(***************************************************************************)
(* Failures and missing equations.                                         *)
(***************************************************************************)

C24_NoMissingEquation ==
    call.node # NoNode =>
       \A x \in Subtree(call.node) \cap Exprs :
          sub_equation(x, enclosing_env(call.node), call.node, bindings).st # "null"

=============================================================================
